---------------------------- MODULE Spec2Model ----------------------------
(***************************************************************************)
(* Model of create-rss-feed: the extraction core (scraper), the rule       *)
(* engine (filterRules), the generate-feed IPC handler, the batch updater  *)
(* (update-feeds), the rule storage (sourceConfig) and the publisher       *)
(* (githubPublisher).                                                      *)
(*                                                                         *)
(* Text is a sequence of one-character strings, so that trimming, case     *)
(* folding, substring search and URL parsing are computed, not assumed.    *)
(* A JavaScript value of unknown type is a tagged record [t |-> ...].      *)
(***************************************************************************)
EXTENDS Integers, Sequences, FiniteSets, TLC

VARIABLES
    \* ---- rule engine harness (filterRules.applySourceRules) ----
    ruleArticles,   \* the article list handed to applySourceRules
    ruleInput,      \* the rulesInput argument (raw, un-normalized)
    ruleResult,     \* the SourceRuleApplyResult, or NoResult before the call
    \* ---- one extractFeed call and its caller ----
    pc,             \* position of the call
    caller,         \* "none" | "direct" | "ipc"
    extractorLib,   \* which export of the feed-parsing library exists
    ipcUrl,         \* the url argument of the generate-feed handler
    reqUrl,         \* the url argument of extractFeed
    reqRules,       \* the rules option handed to extractFeed
    html,           \* the page returned by fetchHtml
    feedLinks,      \* detectFeedLinks(html, url)
    candIdx,        \* index of the candidate being probed (0: none)
    lastAnswer,     \* what the extractor answered for the latest candidate probed
    autoDetected,   \* result of tryAutoDetectFeeds once it returned
    heuristicRuns,  \* number of times extractHeuristically ran
    linkScans,      \* number of times extractFromLinksByPattern ran
    heuristicFeed,  \* what extractHeuristically returned
    fetchLog,       \* every fetch issued, in order
    storageReads,   \* number of getRulesBySourceUrl calls
    extractCalls,   \* number of extractFeed calls
    outcome,        \* result of extractFeed: pending | ok | error
    ipcResponse,    \* response of the generate-feed handler
    \* --- the batch updater (update-feeds run) ---
    rawConfig,      \* config/feed-sources.json as JSON.parse reads it
    batchPc,        \* read | start | loop | done
    sources,        \* config.sources as readSourcesConfig returned them
    enabledSources, \* the sources the loop iterates over
    sourceIdx,      \* number of loop iterations finished
    desiredPaths,   \* desiredPaths of run
    successfulPaths,\* successfulPaths of run
    failedSources,  \* failedSources of run
    extractLog,     \* the URLs extractFeed was called with
    outputFiles,    \* the files under .generated-feeds
    meta,           \* managed-feeds.json, once written
    runOutcome,     \* pending | running | ok | the error run throws
    \* --- publishing to GitHub Pages ---
    ghPages,        \* the files on the gh-pages branch
    publishLog,     \* the publishes that committed a file
    publishResult,  \* outcome of the last publishFeedToGitHubPages
    \* --- the rule storage (sourceConfig) ---
    configFile,     \* the rows of config/feed-sources.json
    saveLog,        \* the saves that wrote the file, oldest first
    lastGet,        \* the answer of getRulesBySourceUrl since the last save
    storeError,     \* the error of the last storage call, or "none"
    \* --- two calls of extractFeed in flight ---
    tasks,          \* the locals of each call
    pairSteps,      \* the steps taken, in order: which call, which await
    \* --- one entry of a parsed feed ---
    feedEntry,      \* the entry handed to parseExtractorEntry
    parsedEntry,    \* what parseExtractorEntry returned for it
    \* --- one rule set on its way into the configuration file ---
    rawRules,       \* the raw rule set handed to normalizeSourceRules
    rulesNormalized,\* what normalizeSourceRules returned for it
    rulesCompact,   \* what compactSourceRules returned for that
    \* --- two save-source-rules requests in flight ---
    sharedConfig,   \* feed-sources.json, as both requests see it
    saveCalls,      \* the locals of each request
    \* --- the renderer ---
    renderer        \* the script's variables, the buttons and the pending awaits

ruleVars == <<ruleArticles, ruleInput, ruleResult>>
callVars == <<pc, caller, extractorLib, ipcUrl, reqUrl, reqRules, html, feedLinks,
              candIdx, lastAnswer, autoDetected, heuristicRuns, linkScans, heuristicFeed,
              fetchLog,
              storageReads, extractCalls, outcome, ipcResponse>>
batchVars == <<rawConfig, batchPc, sources, enabledSources, sourceIdx, desiredPaths, successfulPaths,
               failedSources, extractLog, outputFiles, meta, runOutcome>>
publishVars == <<ghPages, publishLog, publishResult>>
storeVars == <<configFile, saveLog, lastGet, storeError>>
pairVars == <<tasks, pairSteps>>
entryVars == <<feedEntry, parsedEntry>>
normVars == <<rawRules, rulesNormalized, rulesCompact>>
raceVars == <<sharedConfig, saveCalls>>
uiVars == <<renderer>>
vars == <<ruleVars, callVars, batchVars, publishVars, storeVars, pairVars, entryVars,
          normVars, raceVars, uiVars>>

\* what an action of one component leaves alone
besidesRules == <<callVars, batchVars, publishVars, storeVars, pairVars, entryVars, normVars,
                  raceVars, uiVars>>
besidesCall == <<ruleVars, batchVars, publishVars, storeVars, pairVars, entryVars, normVars,
                 raceVars, uiVars>>
besidesBatch == <<ruleVars, callVars, publishVars, storeVars, pairVars, entryVars, normVars,
                  raceVars, uiVars>>
besidesPublish == <<ruleVars, callVars, batchVars, storeVars, pairVars, entryVars, normVars,
                    raceVars, uiVars>>
besidesStore == <<ruleVars, callVars, batchVars, publishVars, pairVars, entryVars, normVars,
                  raceVars, uiVars>>
besidesPair == <<ruleVars, callVars, batchVars, publishVars, storeVars, entryVars, normVars,
                 raceVars, uiVars>>
besidesEntry == <<ruleVars, callVars, batchVars, publishVars, storeVars, pairVars, normVars,
                  raceVars, uiVars>>
besidesNorm == <<ruleVars, callVars, batchVars, publishVars, storeVars, pairVars, entryVars,
                 raceVars, uiVars>>
besidesRace == <<ruleVars, callVars, batchVars, publishVars, storeVars, pairVars,
                 entryVars, normVars, uiVars>>
besidesUi == <<ruleVars, callVars, batchVars, publishVars, storeVars, pairVars,
               entryVars, normVars, raceVars>>

---------------------------------------------------------------------------
(* Bounds of the model *)

\* longest article list handed to the rule engine harness
MaxRuleList == 3
\* a parsed feed / page may carry this many items more than MAX_ARTICLES
MaxOverflow == 2

---------------------------------------------------------------------------
(* JavaScript values *)

Undef == [t |-> "undefined"]
Null == [t |-> "null"]
Str(s) == [t |-> "string", v |-> s]
Bool(b) == [t |-> "boolean", v |-> b]
\* a finite number n/2 (so that non-integers exist); NaN and Infinity apart
Half(k) == [t |-> "number", twice |-> k]
Num(n) == Half(2 * n)
NaN == [t |-> "nan"]
Infinity == [t |-> "infinity"]
Arr(items) == [t |-> "array", v |-> items]

IsNullish(x) == x.t \in {"undefined", "null"}
\* a ?? b
Coalesce(a, b) == IF IsNullish(a) THEN b ELSE a

Min(a, b) == IF a <= b THEN a ELSE b

---------------------------------------------------------------------------
(* Text *)

UpperChars == <<"A","B","C","D","E","F","G","H","I","J","K","L","M",
                "N","O","P","Q","R","S","T","U","V","W","X","Y","Z">>
LowerChars == <<"a","b","c","d","e","f","g","h","i","j","k","l","m",
                "n","o","p","q","r","s","t","u","v","w","x","y","z">>

IsUpper(c) == \E i \in 1..26 : UpperChars[i] = c
IsLetter(c) == \E i \in 1..26 : UpperChars[i] = c \/ LowerChars[i] = c
LowerChar(c) ==
    IF IsUpper(c) THEN LowerChars[CHOOSE i \in 1..26 : UpperChars[i] = c] ELSE c

\* String.prototype.toLowerCase
ToLowerCase(s) == [i \in 1..Len(s) |-> LowerChar(s[i])]

IsSpace(c) == c = " "

\* String.prototype.trim
Trim(s) ==
    IF \A i \in 1..Len(s) : IsSpace(s[i]) THEN <<>>
    ELSE LET first == CHOOSE i \in 1..Len(s) :
                          ~IsSpace(s[i]) /\ \A j \in 1..(i-1) : IsSpace(s[j])
             last == CHOOSE i \in 1..Len(s) :
                          ~IsSpace(s[i]) /\ \A j \in (i+1)..Len(s) : IsSpace(s[j])
         IN SubSeq(s, first, last)

\* String.prototype.includes
Includes(text, term) ==
    \E i \in 0..(Len(text) - Len(term)) : SubSeq(text, i + 1, i + Len(term)) = term

\* value.replace(/\s+/g, " "): every run of white space becomes one space
RECURSIVE CollapseSpaces(_)
CollapseSpaces(s) ==
    IF s = <<>> THEN <<>>
    ELSE IF IsSpace(Head(s)) /\ Len(s) > 1 /\ IsSpace(s[2])
         THEN CollapseSpaces(Tail(s))
         ELSE <<Head(s)>> \o CollapseSpaces(Tail(s))

\* first index of character c in s, 0 when absent
IndexOf(s, c) ==
    IF \E i \in 1..Len(s) : s[i] = c
    THEN CHOOSE i \in 1..Len(s) : s[i] = c /\ \A j \in 1..(i-1) : s[j] # c
    ELSE 0

---------------------------------------------------------------------------
(* filterRules: normalization *)

RECURSIVE DedupeFrom(_, _)
\* Array.from(new Set(list)): first occurrences, in insertion order
DedupeFrom(list, acc) ==
    IF list = <<>> THEN acc
    ELSE IF \E j \in 1..Len(acc) : acc[j] = Head(list)
         THEN DedupeFrom(Tail(list), acc)
         ELSE DedupeFrom(Tail(list), Append(acc, Head(list)))

\* variant: the trimmed non-empty strings, repeats kept
NormalizeTermListKeepingRepeats(value) ==
    IF value.t # "array" THEN <<>>
    ELSE LET mapped == [i \in 1..Len(value.v) |->
                          IF value.v[i].t = "string" THEN Trim(value.v[i].v) ELSE <<>>]
         IN SelectSeq(mapped, LAMBDA item : Len(item) > 0)

NormalizeTermList(value) ==
    IF value.t # "array" THEN <<>>
    ELSE LET mapped == [i \in 1..Len(value.v) |->
                          IF value.v[i].t = "string" THEN Trim(value.v[i].v) ELSE <<>>]
             nonEmpty == SelectSeq(mapped, LAMBDA item : Len(item) > 0)
         IN DedupeFrom(nonEmpty, <<>>)

\* variant: any truthy value counts as true, Boolean(value)
NormalizeBooleanTruthy(value) ==
    IF value.t = "boolean" THEN value.v
    ELSE IF value.t = "string" THEN value.v # <<>>
    ELSE IF value.t = "number" THEN value.twice # 0
    ELSE value.t \in {"array", "object", "function", "infinity"}

NormalizeBoolean(value) == value = Bool(TRUE)

NormalizeSkipTopCount(value) ==
    IF value.t # "number" THEN 0
    ELSE LET rounded == value.twice \div 2
         IN IF rounded > 0 THEN rounded ELSE 0

RuleFields == {"titleIncludes", "titleExcludes", "urlIncludes", "urlExcludes",
               "descriptionRequired", "publishedAtRequired", "skipTopCount"}

\* (rules ?? {}).field
RuleField(rules, field) == IF IsNullish(rules) THEN Undef ELSE rules[field]

NormalizeSourceRules(rules) ==
    [titleIncludes |-> NormalizeTermList(RuleField(rules, "titleIncludes")),
     titleExcludes |-> NormalizeTermList(RuleField(rules, "titleExcludes")),
     urlIncludes |-> NormalizeTermList(RuleField(rules, "urlIncludes")),
     urlExcludes |-> NormalizeTermList(RuleField(rules, "urlExcludes")),
     descriptionRequired |-> NormalizeBoolean(RuleField(rules, "descriptionRequired")),
     publishedAtRequired |-> NormalizeBoolean(RuleField(rules, "publishedAtRequired")),
     skipTopCount |-> NormalizeSkipTopCount(RuleField(rules, "skipTopCount"))]

HasActiveRules(rules) ==
    \/ Len(rules.titleIncludes) > 0
    \/ Len(rules.titleExcludes) > 0
    \/ Len(rules.urlIncludes) > 0
    \/ Len(rules.urlExcludes) > 0
    \/ rules.descriptionRequired
    \/ rules.publishedAtRequired
    \/ rules.skipTopCount > 0

TermArray(terms) == Arr([i \in 1..Len(terms) |-> Str(terms[i])])

\* the compact object carries a key only where the value is not the default;
\* an absent key reads as undefined
CompactSourceRules(rules) ==
    LET compact ==
          [t |-> "object",
           titleIncludes |-> IF Len(rules.titleIncludes) > 0
                             THEN TermArray(rules.titleIncludes) ELSE Undef,
           titleExcludes |-> IF Len(rules.titleExcludes) > 0
                             THEN TermArray(rules.titleExcludes) ELSE Undef,
           urlIncludes |-> IF Len(rules.urlIncludes) > 0
                           THEN TermArray(rules.urlIncludes) ELSE Undef,
           urlExcludes |-> IF Len(rules.urlExcludes) > 0
                           THEN TermArray(rules.urlExcludes) ELSE Undef,
           descriptionRequired |-> IF rules.descriptionRequired THEN Bool(TRUE) ELSE Undef,
           publishedAtRequired |-> IF rules.publishedAtRequired THEN Bool(TRUE) ELSE Undef,
           skipTopCount |-> IF rules.skipTopCount > 0
                            THEN Num(rules.skipTopCount) ELSE Undef]
    IN IF \E f \in RuleFields : compact[f] # Undef THEN compact ELSE Null

---------------------------------------------------------------------------
(* filterRules: matching and application *)

IncludesAll(text, terms) ==
    IF Len(terms) = 0 THEN TRUE
    ELSE LET lowerText == ToLowerCase(text)
         IN \A i \in 1..Len(terms) : Includes(lowerText, ToLowerCase(terms[i]))

IncludesAny(text, terms) ==
    IF Len(terms) = 0 THEN FALSE
    ELSE LET lowerText == ToLowerCase(text)
         IN \E i \in 1..Len(terms) : Includes(lowerText, ToLowerCase(terms[i]))

\* Boolean((value ?? "").trim())
IsPresent(value) == value.t = "string" /\ Len(Trim(value.v)) > 0

MatchesArticle(article, rules) ==
    LET title == Trim(article.title)
        url == Trim(article.url)
    IN IF ~IncludesAll(title, rules.titleIncludes) THEN FALSE
       ELSE IF IncludesAny(title, rules.titleExcludes) THEN FALSE
       ELSE IF ~IncludesAll(url, rules.urlIncludes) THEN FALSE
       ELSE IF IncludesAny(url, rules.urlExcludes) THEN FALSE
       ELSE IF rules.descriptionRequired /\ ~IsPresent(article.description) THEN FALSE
       ELSE IF rules.publishedAtRequired /\ ~IsPresent(article.publishedAt) THEN FALSE
       ELSE TRUE

\* Array.prototype.slice(start)
SliceFrom(list, start) == SubSeq(list, start + 1, Len(list))

\* variant: filteredOutCount forgets the articles of the leading skip
RuleApplyResultMiscounted(afterSkip, kept, skippedTopCount, rules) ==
    [articles |-> kept,
     skippedTopCount |-> skippedTopCount,
     ruleFilteredCount |-> Len(afterSkip) - Len(kept),
     filteredOutCount |-> Len(afterSkip) - Len(kept),
     appliedRules |-> Coalesce(CompactSourceRules(rules), Undef)]

\* the result once the kept articles are known
RuleApplyResult(afterSkip, kept, skippedTopCount, rules) ==
    [articles |-> kept,
     skippedTopCount |-> skippedTopCount,
     ruleFilteredCount |-> Len(afterSkip) - Len(kept),
     filteredOutCount |-> skippedTopCount + (Len(afterSkip) - Len(kept)),
     appliedRules |-> Coalesce(CompactSourceRules(rules), Undef)]

\* variant: the kept articles are returned last first
FilterAfterSkipLastFirst(afterSkip, skippedTopCount, rules) ==
    RuleApplyResult(afterSkip,
                    LET kept == SelectSeq(afterSkip,
                                          LAMBDA article : MatchesArticle(article, rules))
                    IN [i \in 1..Len(kept) |-> kept[Len(kept) + 1 - i]],
                    skippedTopCount, rules)

FilterAfterSkip(afterSkip, skippedTopCount, rules) ==
    RuleApplyResult(afterSkip,
                    SelectSeq(afterSkip, LAMBDA article : MatchesArticle(article, rules)),
                    skippedTopCount, rules)

\* variant: the predicates first, the leading skip on what they keep
FilterThenSkip(articles, skippedTopCount, rules) ==
    RuleApplyResult(SliceFrom(articles, skippedTopCount),
                    SliceFrom(SelectSeq(articles,
                                        LAMBDA article : MatchesArticle(article, rules)),
                              skippedTopCount),
                    skippedTopCount, rules)

SkipTop(articles, skippedTopCount, rules) ==
    FilterAfterSkip(SliceFrom(articles, skippedTopCount), skippedTopCount, rules)

\* variant: skippedTopCount is not clamped to the length of the list
ApplyNormalizedRulesUnclamped(articles, rules) ==
    IF ~HasActiveRules(rules)
    THEN [articles |-> articles,
          skippedTopCount |-> 0,
          ruleFilteredCount |-> 0,
          filteredOutCount |-> 0,
          appliedRules |-> Undef]
    ELSE SkipTop(articles, rules.skipTopCount, rules)

\* applySourceRules after normalizeSourceRules
ApplyNormalizedRules(articles, rules) ==
    IF ~HasActiveRules(rules)
    THEN [articles |-> articles,
          skippedTopCount |-> 0,
          ruleFilteredCount |-> 0,
          filteredOutCount |-> 0,
          appliedRules |-> Undef]
    ELSE SkipTop(articles, Min(rules.skipTopCount, Len(articles)), rules)

ApplySourceRules(articles, rulesInput) ==
    ApplyNormalizedRules(articles, NormalizeSourceRules(rulesInput))

---------------------------------------------------------------------------
(* Inputs of the rule engine harness *)

HttpPrefix == <<"h","t","t","p",":","/","/">>
HttpsPrefix == <<"h","t","t","p","s",":","/","/">>

Article(title, url, description, publishedAt) ==
    [title |-> title, url |-> url, description |-> description,
     publishedAt |-> publishedAt, author |-> Undef]

\* articles as extraction produces them: cleaned text, absent when empty
RuleArticlePool ==
    { Article(<<"A","b">>, HttpPrefix \o <<"h","/","x">>, Str(<<"d">>), Str(<<"t">>)),
      Article(<<"b","C">>, HttpPrefix \o <<"h","/","Y">>, Undef, Undef),
      Article(<<"a"," ","c">>, HttpPrefix \o <<"h","/","x","y">>, Undef, Str(<<"t">>)) }

RECURSIVE SeqsUpTo(_, _)
\* every sequence over S of length at most n
SeqsUpTo(S, n) ==
    IF n = 0 THEN {<<>>}
    ELSE SeqsUpTo(S, n - 1)
         \cup {Append(q, x) : q \in {r \in SeqsUpTo(S, n - 1) : Len(r) = n - 1}, x \in S}

RuleArticleLists == SeqsUpTo(RuleArticlePool, MaxRuleList)

TitleIncludesInputs ==
    { Undef,
      Arr(<<Str(<<" ">>), Num(1)>>),
      Arr(<<Str(<<"a">>)>>),
      Arr(<<Str(<<" ","B">>), Str(<<"B">>)>>) }
TitleExcludesInputs == { Undef, Arr(<<Str(<<"C">>)>>) }
UrlIncludesInputs == { Undef, Arr(<<Str(<<"/","X">>)>>) }
UrlExcludesInputs == { Arr(<<>>), Arr(<<Str(<<"y">>)>>) }
DescriptionRequiredInputs == { Undef, Bool(TRUE), Str(<<"t","r","u","e">>) }
PublishedAtRequiredInputs == { Bool(FALSE), Bool(TRUE) }
SkipTopCountInputs ==
    { Undef, NaN, Infinity, Str(<<"2">>), Num(0 - 1), Half(1), Half(3) }
    \cup { Num(n) : n \in 0..(MaxRuleList + 1) }

RuleInputs ==
    { Null, Undef }
    \cup [t : {"object"},
          titleIncludes : TitleIncludesInputs,
          titleExcludes : TitleExcludesInputs,
          urlIncludes : UrlIncludesInputs,
          urlExcludes : UrlExcludesInputs,
          descriptionRequired : DescriptionRequiredInputs,
          publishedAtRequired : PublishedAtRequiredInputs,
          skipTopCount : SkipTopCountInputs]

NoResult == [articles |-> <<>>, skippedTopCount |-> 0 - 1, ruleFilteredCount |-> 0 - 1,
             filteredOutCount |-> 0 - 1, appliedRules |-> Undef]

---------------------------------------------------------------------------
(* URLs: the part of the WHATWG parser the program relies on.  A URL has a *)
(* scheme of letters before the first ":"; an http(s) URL needs a host.    *)
(* Dot segments, ports, credentials and fragments are outside the inputs.  *)

HttpScheme == <<"h","t","t","p">>
HttpsScheme == <<"h","t","t","p","s">>

RECURSIVE StripLeadingSlashes(_)
StripLeadingSlashes(s) ==
    IF s # <<>> /\ Head(s) = "/" THEN StripLeadingSlashes(Tail(s)) ELSE s

BadUrl == [ok |-> FALSE, protocol |-> <<>>, hostname |-> <<>>,
           pathname |-> <<>>, search |-> <<>>]

\* an http(s) URL from its parts: it needs a host
HostPathUrl(scheme, host, path, search) ==
    IF host = <<>> \/ \E i \in 1..Len(host) : IsSpace(host[i]) THEN BadUrl
    ELSE [ok |-> TRUE,
          protocol |-> scheme \o <<":">>,
          hostname |-> ToLowerCase(host),
          pathname |-> path,
          search |-> search]

\* the host ends at the first "/", where the path starts
SplitAtSlash(scheme, hostAndPath, slash, search) ==
    HostPathUrl(scheme,
                IF slash = 0 THEN hostAndPath ELSE SubSeq(hostAndPath, 1, slash - 1),
                IF slash = 0 THEN <<"/">> ELSE SubSeq(hostAndPath, slash, Len(hostAndPath)),
                search)

\* the query starts at the first "?"
SplitAtQuery(scheme, authorityOn, query) ==
    SplitAtSlash(scheme,
                 IF query = 0 THEN authorityOn ELSE SubSeq(authorityOn, 1, query - 1),
                 IndexOf(IF query = 0 THEN authorityOn
                         ELSE SubSeq(authorityOn, 1, query - 1), "/"),
                 IF query = 0 THEN <<>> ELSE SubSeq(authorityOn, query, Len(authorityOn)))

\* an http(s) URL from its scheme and what follows the slashes after ":"
HttpUrlOf(scheme, authorityOn) ==
    SplitAtQuery(scheme, authorityOn, IndexOf(authorityOn, "?"))

SchemeAndRest(scheme, rest) ==
    IF \E i \in 1..Len(scheme) : ~IsLetter(scheme[i]) THEN BadUrl
    ELSE IF scheme \in {HttpScheme, HttpsScheme}
         THEN HttpUrlOf(scheme, StripLeadingSlashes(rest))
    ELSE [ok |-> TRUE, protocol |-> scheme \o <<":">>, hostname |-> <<>>,
          pathname |-> rest, search |-> <<>>]

SplitAtColon(t, colon) ==
    IF colon <= 1 THEN BadUrl
    ELSE SchemeAndRest(ToLowerCase(SubSeq(t, 1, colon - 1)), SubSeq(t, colon + 1, Len(t)))

ParseTrimmedUrl(t) == SplitAtColon(t, IndexOf(t, ":"))

\* new URL(value): ok = FALSE stands for the TypeError it throws
ParseUrl(value) == ParseTrimmedUrl(Trim(value))

IsHttpProtocol(protocol) ==
    protocol = HttpScheme \o <<":">> \/ protocol = HttpsScheme \o <<":">>

\* URL.prototype.toString
Href(u) ==
    IF IsHttpProtocol(u.protocol)
    THEN u.protocol \o <<"/","/">> \o u.hostname \o u.pathname \o u.search
    ELSE u.protocol \o u.pathname

\* the body of the try block, on the parsed URL
HasHttpProtocol(parsed) == IF ~parsed.ok THEN FALSE ELSE IsHttpProtocol(parsed.protocol)

IsHttpUrl(value) == HasHttpProtocol(ParseUrl(value))

\* main.ts carries its own copy of the same test
IsValidHttpUrl(value) == HasHttpProtocol(ParseUrl(value))

\* last index of character c in s, 0 when absent
LastIndexOf(s, c) ==
    IF \E i \in 1..Len(s) : s[i] = c
    THEN CHOOSE i \in 1..Len(s) : s[i] = c /\ \A j \in (i+1)..Len(s) : s[j] # c
    ELSE 0

\* the reference ref resolved: own is ref parsed alone, base the base URL
ResolveReference(own, base, ref) ==
    IF own.ok THEN Str(Href(own))
    ELSE IF ~base.ok \/ ~IsHttpProtocol(base.protocol) THEN Null
    ELSE IF ref = <<>> THEN Str(Href(base))
    ELSE IF Head(ref) = "/"
         THEN Str(base.protocol \o <<"/","/">> \o base.hostname \o ref)
    ELSE Str(base.protocol \o <<"/","/">> \o base.hostname
             \o SubSeq(base.pathname, 1, LastIndexOf(base.pathname, "/"))
             \o ref)

\* new URL(candidate, baseUrl).toString(); candidate is a JS value, the
\* result is Null where the code returns null
ToAbsoluteUrl(baseUrl, candidate) ==
    IF candidate.t # "string" THEN Null
    ELSE IF candidate.v = <<>> THEN Null
    ELSE ResolveReference(ParseUrl(candidate.v), ParseUrl(baseUrl), Trim(candidate.v))

---------------------------------------------------------------------------
(* scraper: text and dates *)

MAX_ARTICLES == 50
MAX_FEED_LINKS == 10

\* cleanText(value) for value: string | undefined | null
CleanText(value) ==
    IF value.t # "string" \/ value.v = <<>> THEN <<>>
    ELSE Trim(CollapseSpaces(value.v))

\* a || b on strings
OrText(a, b) == IF a # <<>> THEN a ELSE b

\* a JS string, or undefined when it is empty: value || undefined
TextOrUndef(text) == IF text # <<>> THEN Str(text) ELSE Undef

IsDigit(c) == c \in {"0","1","2","3","4","5","6","7","8","9"}

IsoSuffix == <<"-","0","1","-","0","1","T","0","0",":","0","0",":","0","0",".","0","0","0","Z">>

\* Date parsing, for the two shapes the inputs use: a four-digit year (ISO
\* year-only form) and the ISO text toISOString produced from one
IsParsableDate(text) ==
    \/ Len(text) = 4 /\ \A i \in 1..4 : IsDigit(text[i])
    \/ /\ Len(text) = 4 + Len(IsoSuffix)
       /\ \A i \in 1..4 : IsDigit(text[i])
       /\ SubSeq(text, 5, Len(text)) = IsoSuffix

ToISOString(text) == SubSeq(text, 1, 4) \o IsoSuffix

NormalizeDate(value) ==
    IF value.t # "string" \/ value.v = <<>> THEN Undef
    ELSE IF ~IsParsableDate(Trim(value.v)) THEN Undef
    ELSE Str(ToISOString(Trim(value.v)))

RECURSIVE UniqueByUrl(_, _)
\* the Map of uniqueArticles: first article of each url, in insertion order
UniqueByUrl(articles, byUrl) ==
    IF articles = <<>> THEN byUrl
    ELSE IF \E j \in 1..Len(byUrl) : byUrl[j].url = Head(articles).url
         THEN UniqueByUrl(Tail(articles), byUrl)
         ELSE UniqueByUrl(Tail(articles), Append(byUrl, Head(articles)))

\* Array.prototype.slice(0, n)
SliceTo(list, n) == SubSeq(list, 1, Min(n, Len(list)))

\* variant: the Map's values without the slice
UniqueArticlesUncapped(articles) == UniqueByUrl(articles, <<>>)

UniqueArticles(articles) == SliceTo(UniqueByUrl(articles, <<>>), MAX_ARTICLES)

---------------------------------------------------------------------------
(* scraper: feed discovery *)

\* element.attr(name) ?? ""
AttrText(value) == IF value.t = "string" THEN value.v ELSE <<>>

FeedTypeWords == { <<"r","s","s">>, <<"a","t","o","m">>, <<"x","m","l">> }
AlternateWord == <<"a","l","t","e","r","n","a","t","e">>

\* the absolute url is kept when it is an http(s) URL
KeepHttpLink(absoluteUrl) ==
    IF absoluteUrl = Null THEN Null
    ELSE IF IsHttpUrl(absoluteUrl.v) THEN absoluteUrl
    ELSE Null

\* one <link href> element of the page: does detectFeedLinks keep it, and as what
FeedLinkOf(link, sourceUrl) ==
    IF ~Includes(ToLowerCase(AttrText(link.rel)), AlternateWord) THEN Null
    ELSE IF ~\E w \in FeedTypeWords : Includes(ToLowerCase(AttrText(link.type)), w)
         THEN Null
    ELSE KeepHttpLink(ToAbsoluteUrl(sourceUrl, link.href))

\* links.add(absoluteUrl), skipped for a link that is not kept
AddFeedLink(acc, kept) ==
    IF kept = Null THEN acc
    ELSE IF \E j \in 1..Len(acc) : acc[j] = kept.v THEN acc
    ELSE Append(acc, kept.v)

RECURSIVE CollectFeedLinks(_, _, _)
CollectFeedLinks(links, sourceUrl, acc) ==
    IF links = <<>> THEN acc
    ELSE CollectFeedLinks(Tail(links), sourceUrl,
                          AddFeedLink(acc, FeedLinkOf(Head(links), sourceUrl)))

\* variant: every advertised feed is a candidate, without the cap
DetectFeedLinksUncapped(page, sourceUrl) ==
    CollectFeedLinks(page.links, sourceUrl, <<>>)

DetectFeedLinks(page, sourceUrl) ==
    SliceTo(CollectFeedLinks(page.links, sourceUrl, <<>>), MAX_FEED_LINKS)

Function == [t |-> "function"]

\* the export pickExtractor returns, "none" for undefined
PickExtractor(lib) ==
    LET candidate == Coalesce(lib.extract, Coalesce(lib.extractFromUrl, lib.default))
    IN IF candidate.t = "function"
       THEN (IF ~IsNullish(lib.extract) THEN "extract"
             ELSE IF ~IsNullish(lib.extractFromUrl) THEN "extractFromUrl"
             ELSE "default")
       ELSE "none"

ParseExtractorAuthor(authorValue) ==
    IF IsNullish(authorValue) \/ authorValue = Str(<<>>) THEN Undef
    ELSE IF authorValue.t = "string" THEN TextOrUndef(CleanText(authorValue))
    ELSE IF authorValue.t = "object"
         THEN (IF authorValue.name.t = "string"
               THEN TextOrUndef(CleanText(authorValue.name))
               ELSE Undef)
    ELSE Undef

\* author, else the first of authors
EntryAuthor(entry, author) ==
    IF author # Undef THEN author
    ELSE IF entry.authors.t # "array" THEN author
    ELSE IF Len(entry.authors.v) > 0 THEN ParseExtractorAuthor(entry.authors.v[1])
    ELSE author

\* parseExtractorEntry once title and urlRaw are read
EntryArticle(entry, title, urlRaw) ==
    IF title = <<>> THEN Null
    ELSE IF urlRaw.t # "string" THEN Null
    ELSE IF urlRaw.v = <<>> THEN Null
    ELSE IF ~IsHttpUrl(urlRaw.v) THEN Null
    ELSE [title |-> title,
          url |-> urlRaw.v,
          description |->
              TextOrUndef(CleanText(Coalesce(entry.description,
                                     Coalesce(entry.summary,
                                      Coalesce(entry.content, entry.contentSnippet))))),
          publishedAt |->
              NormalizeDate(Coalesce(entry.published,
                             Coalesce(entry.pubDate,
                              Coalesce(entry.isoDate, entry.publishedAt)))),
          author |-> EntryAuthor(entry, ParseExtractorAuthor(entry.author))]

\* Null where the code returns null, the FeedArticle otherwise
ParseExtractorEntry(entry) ==
    IF entry.t # "object" THEN Null
    ELSE EntryArticle(entry,
                      CleanText(Coalesce(entry.title,
                                 Coalesce(entry.summary, entry.contentSnippet))),
                      Coalesce(entry.link, Coalesce(entry.url, entry.id)))

\* "#" stands for the fixed phrase appended to the title
AutoFeedSuffix == <<" ", "#">>

Hostname(sourceUrl) == ParseUrl(sourceUrl).hostname

NoFeed == [title |-> <<>>, description |-> <<>>, articles |-> <<>>]

Thrown == [t |-> "throw"]

\* rawEntries of one extractor result
RawEntries(extracted) ==
    IF extracted.entries.t = "array" THEN extracted.entries.v
    ELSE IF extracted.items.t = "array" THEN extracted.items.v
    ELSE <<>>

ParsedEntries(rawEntries) ==
    [i \in 1..Len(rawEntries) |-> ParseExtractorEntry(rawEntries[i])]

NormalizedEntries(extracted) ==
    UniqueArticles(SelectSeq(ParsedEntries(RawEntries(extracted)),
                             LAMBDA entry : entry # Null))

\* variant: the description is the parsed one, with no fallback
FeedWithParsedDescription(title, parsedDescription, page, articles) ==
    [title |-> title, description |-> parsedDescription, articles |-> articles]

\* the feed description: parsed, else the page's, else built from the title
FeedWithTitle(title, parsedDescription, page, articles) ==
    [title |-> title,
     description |-> OrText(parsedDescription,
                      OrText(CleanText(page.metaDescription), title \o AutoFeedSuffix)),
     articles |-> articles]

\* the tail of the loop body, once the entries are normalized
FeedFromEntries(extracted, normalizedEntries, page, sourceUrl) ==
    IF Len(normalizedEntries) = 0 THEN [found |-> FALSE, feed |-> NoFeed]
    ELSE [found |-> TRUE,
          feed |-> FeedWithTitle(OrText(CleanText(extracted.title),
                                  OrText(CleanText(page.ogSiteName), Hostname(sourceUrl))),
                                 CleanText(extracted.description),
                                 page, normalizedEntries)]

\* variant: the loop returns a parsed feed even when no entry was normalized
ProbeCandidateAcceptingEmpty(extracted, page, sourceUrl) ==
    IF extracted = Thrown THEN [found |-> FALSE, feed |-> NoFeed]
    ELSE IF extracted.t # "object" THEN [found |-> FALSE, feed |-> NoFeed]
    ELSE [found |-> TRUE,
          feed |-> FeedWithTitle(OrText(CleanText(extracted.title),
                                  OrText(CleanText(page.ogSiteName), Hostname(sourceUrl))),
                                 CleanText(extracted.description),
                                 page, NormalizedEntries(extracted))]

\* one turn of the loop of tryAutoDetectFeeds on what the extractor answered:
\* found = FALSE is "continue" (also from the catch), else the feed returned
ProbeCandidate(extracted, page, sourceUrl) ==
    IF extracted = Thrown THEN [found |-> FALSE, feed |-> NoFeed]
    ELSE IF extracted.t # "object" THEN [found |-> FALSE, feed |-> NoFeed]
    ELSE FeedFromEntries(extracted, NormalizedEntries(extracted), page, sourceUrl)

---------------------------------------------------------------------------
(* scraper: heuristic extraction.  A container or an anchor of the page is *)
(* a record of what the selectors of the code read from it.                *)

ExtractDateFromElement(element) ==
    LET timeValue ==
          CleanText(Coalesce(element.timeDatetime,
                     Coalesce(element.anyDatetime, Str(element.timeText))))
    IN NormalizeDate(TextOrUndef(timeValue))

ExtractAuthorFromElement(element) ==
    TextOrUndef(CleanText(Str(OrText(element.relAuthor, element.classAuthor))))

\* the callback of extractFromContainers once the link is resolved
ContainerArticleAt(container, articleUrl, title) ==
    IF articleUrl = Null THEN Null
    ELSE IF ~IsHttpUrl(articleUrl.v) THEN Null
    ELSE IF title = <<>> THEN Null
    ELSE [title |-> title,
          url |-> articleUrl.v,
          description |-> TextOrUndef(CleanText(Str(container.summary))),
          publishedAt |-> ExtractDateFromElement(container),
          author |-> ExtractAuthorFromElement(container)]

\* the article one container yields, Null when the callback returns early
ContainerArticle(container, sourceUrl) ==
    ContainerArticleAt(container,
                       ToAbsoluteUrl(sourceUrl, container.href),
                       OrText(CleanText(Str(container.heading)),
                              CleanText(Str(container.text))))

\* candidates.push(article), skipped when the callback returned early
PushCandidate(candidates, article) ==
    IF article = Null THEN candidates ELSE Append(candidates, article)

RECURSIVE ContainerCandidates(_, _, _)
\* the .each loop, which stops once MAX_ARTICLES candidates are collected
ContainerCandidates(containers, sourceUrl, candidates) ==
    IF containers = <<>> \/ Len(candidates) >= MAX_ARTICLES THEN candidates
    ELSE ContainerCandidates(Tail(containers), sourceUrl,
             PushCandidate(candidates, ContainerArticle(Head(containers), sourceUrl)))

ExtractFromContainers(page, sourceUrl) ==
    UniqueArticles(ContainerCandidates(page.containers, sourceUrl, <<>>))

SectionWords ==
    { <<"n","e","w","s">>, <<"a","r","t","i","c","l","e">>,
      <<"a","r","t","i","c","l","e","s">>, <<"p","o","s","t">>,
      <<"p","o","s","t","s">>, <<"e","n","t","r","y">>,
      <<"e","n","t","r","i","e","s">>, <<"b","l","o","g">>,
      <<"t","o","p","i","c","s">> }

ExcludedExtensions ==
    { <<"j","p","g">>, <<"j","p","e","g">>, <<"p","n","g">>, <<"g","i","f">>,
      <<"w","e","b","p">>, <<"s","v","g">>, <<"p","d","f">>, <<"z","i","p">> }

EndsWith(text, suffix) ==
    Len(text) >= Len(suffix)
    /\ SubSeq(text, Len(text) - Len(suffix) + 1, Len(text)) = suffix

\* does text carry pattern at position i
HasAt(text, i, pattern) ==
    i >= 1 /\ i + Len(pattern) - 1 <= Len(text)
    /\ SubSeq(text, i, i + Len(pattern) - 1) = pattern

DigitAt(text, i) == i >= 1 /\ i <= Len(text) /\ IsDigit(text[i])

\* /(^|\/)(news|article|...)(\/|$)/i
MatchesSectionWord(url) ==
    LET lower == ToLowerCase(url)
    IN \E w \in SectionWords : \E i \in 1..Len(lower) :
          /\ HasAt(lower, i, w)
          /\ (i = 1 \/ lower[i - 1] = "/")
          /\ (i + Len(w) - 1 = Len(lower) \/ lower[i + Len(w)] = "/")

\* /\/20\d{2}\/\d{1,2}(\/\d{1,2})?\//
MatchesDatePath(url) ==
    \E i \in 1..Len(url) :
       /\ HasAt(url, i, <<"/","2","0">>)
       /\ DigitAt(url, i + 3) /\ DigitAt(url, i + 4)
       /\ HasAt(url, i + 5, <<"/">>)
       /\ \E m \in 1..2 :
             /\ \A k \in 1..m : DigitAt(url, i + 5 + k)
             /\ \/ HasAt(url, i + 6 + m, <<"/">>)
                \/ \E d \in 1..2 :
                      /\ HasAt(url, i + 6 + m, <<"/">>)
                      /\ \A k \in 1..d : DigitAt(url, i + 6 + m + k)
                      /\ HasAt(url, i + 7 + m + d, <<"/">>)

\* /\/20\d{2}-\d{2}-\d{2}\//
MatchesDateSlug(url) ==
    \E i \in 1..Len(url) :
       /\ HasAt(url, i, <<"/","2","0">>)
       /\ DigitAt(url, i + 3) /\ DigitAt(url, i + 4)
       /\ HasAt(url, i + 5, <<"-">>)
       /\ DigitAt(url, i + 6) /\ DigitAt(url, i + 7)
       /\ HasAt(url, i + 8, <<"-">>)
       /\ DigitAt(url, i + 9) /\ DigitAt(url, i + 10)
       /\ HasAt(url, i + 11, <<"/">>)

\* /[?&](p|article_id)=\d+/i
MatchesIdQuery(url) ==
    LET lower == ToLowerCase(url)
    IN \E i \in 1..Len(lower) :
          /\ lower[i] \in {"?", "&"}
          /\ \E key \in { <<"p">>, <<"a","r","t","i","c","l","e","_","i","d">> } :
                /\ HasAt(lower, i + 1, key \o <<"=">>)
                /\ DigitAt(lower, i + 2 + Len(key))

RECURSIVE SplitSegments(_, _, _)
\* path.split("/").filter(Boolean)
SplitSegments(path, current, acc) ==
    IF path = <<>>
    THEN (IF current = <<>> THEN acc ELSE Append(acc, current))
    ELSE IF Head(path) = "/"
         THEN SplitSegments(Tail(path), <<>>,
                            IF current = <<>> THEN acc ELSE Append(acc, current))
         ELSE SplitSegments(Tail(path), Append(current, Head(path)), acc)

SLUG_RUN == 12

IsSlugChar(c) == IsLetter(c) \/ IsDigit(c) \/ c = "-"

\* /[a-z0-9-]{12,}/i
HasSlugRun(segment) ==
    \E i \in 1..Len(segment) :
       /\ i + SLUG_RUN - 1 <= Len(segment)
       /\ \A k \in i..(i + SLUG_RUN - 1) : IsSlugChar(segment[k])

\* the last resort: a long slug as last segment of a path of two or more
HasLongLastSegment(segments) ==
    IF Len(segments) >= 2 THEN HasSlugRun(segments[Len(segments)]) ELSE FALSE

\* isLikelyArticleUrl on a same-host candidate, path being its lowered pathname
IsLikelyArticlePath(candidateUrl, path) ==
    IF path = <<>> \/ path = <<"/">> \/ EndsWith(path, <<"/","t","a","g","/">>)
    THEN FALSE
    ELSE IF \E ext \in ExcludedExtensions : EndsWith(path, <<".">> \o ext) THEN FALSE
    ELSE IF \/ MatchesSectionWord(candidateUrl)
            \/ MatchesDatePath(candidateUrl)
            \/ MatchesDateSlug(candidateUrl)
            \/ MatchesIdQuery(candidateUrl)
         THEN TRUE
    ELSE HasLongLastSegment(SplitSegments(path, <<>>, <<>>))

SameHostLikely(candidateUrl, parsedCandidate, parsedSource) ==
    IF ~parsedCandidate.ok \/ ~parsedSource.ok THEN FALSE
    ELSE IF parsedCandidate.hostname # parsedSource.hostname THEN FALSE
    ELSE IsLikelyArticlePath(candidateUrl, ToLowerCase(parsedCandidate.pathname))

IsLikelyArticleUrl(candidateUrl, sourceUrl) ==
    SameHostLikely(candidateUrl, ParseUrl(candidateUrl), ParseUrl(sourceUrl))

MIN_ANCHOR_TITLE == 4

\* the callback of extractFromLinksByPattern once the link is resolved
AnchorArticleAt(anchor, articleUrl, title, sourceUrl) ==
    IF articleUrl = Null THEN Null
    ELSE IF ~IsHttpUrl(articleUrl.v) THEN Null
    ELSE IF ~IsLikelyArticleUrl(articleUrl.v, sourceUrl) THEN Null
    ELSE IF Len(title) < MIN_ANCHOR_TITLE THEN Null
    ELSE [title |-> title,
          url |-> articleUrl.v,
          description |-> TextOrUndef(CleanText(Str(anchor.summary))),
          publishedAt |-> ExtractDateFromElement(anchor),
          author |-> ExtractAuthorFromElement(anchor)]

\* the article one anchor yields, Null when the callback returns early
AnchorArticle(anchor, sourceUrl) ==
    AnchorArticleAt(anchor, ToAbsoluteUrl(sourceUrl, anchor.href),
                    CleanText(Str(anchor.text)), sourceUrl)

RECURSIVE AnchorCandidates(_, _, _)
AnchorCandidates(anchors, sourceUrl, candidates) ==
    IF anchors = <<>> \/ Len(candidates) >= MAX_ARTICLES THEN candidates
    ELSE AnchorCandidates(Tail(anchors), sourceUrl,
             PushCandidate(candidates, AnchorArticle(Head(anchors), sourceUrl)))

ExtractFromLinksByPattern(page, sourceUrl) ==
    UniqueArticles(AnchorCandidates(page.anchors, sourceUrl, <<>>))

\* variant: Strategy B also runs when Strategy A found exactly two articles
StrategyBRunsUpToTwo(containerArticles) == Len(containerArticles) <= 2

\* Strategy B runs only when Strategy A found fewer than two articles
StrategyBRuns(containerArticles) == Len(containerArticles) < 2

\* calls of extractFromLinksByPattern in one extractHeuristically
LinkScansOf(containerArticles) == IF StrategyBRuns(containerArticles) THEN 1 ELSE 0

\* the articles of extractHeuristically from those of Strategy A
MergeStrategies(containerArticles, page, sourceUrl) ==
    IF ~StrategyBRuns(containerArticles) THEN containerArticles
    ELSE UniqueArticles(containerArticles \o ExtractFromLinksByPattern(page, sourceUrl))

HeuristicArticles(page, sourceUrl) ==
    MergeStrategies(ExtractFromContainers(page, sourceUrl), page, sourceUrl)

\* variant: extractHeuristically returns its feed even without an article
HeuristicFeedNeverThrows(title, page, articles) ==
    [ok |-> TRUE,
     feed |-> [title |-> title,
               description |-> OrText(CleanText(page.metaDescription),
                                      title \o AutoFeedSuffix),
               articles |-> articles]]

\* ok = FALSE stands for the Error thrown when no article was found
HeuristicFeed(title, page, articles) ==
    IF Len(articles) = 0 THEN [ok |-> FALSE, feed |-> NoFeed]
    ELSE [ok |-> TRUE,
          feed |-> [title |-> title,
                    description |-> OrText(CleanText(page.metaDescription),
                                           title \o AutoFeedSuffix),
                    articles |-> articles]]

ExtractHeuristically(sourceUrl, page) ==
    HeuristicFeed(OrText(CleanText(page.ogSiteName),
                   OrText(CleanText(Str(page.titleTag)), Hostname(sourceUrl))),
                  page,
                  HeuristicArticles(page, sourceUrl))

---------------------------------------------------------------------------
(* scraper: synthesis *)

\* the instant of new Date()
Now == <<"n","o","w">>

\* the Feed object handed to rss2(): channel fields and one item per addItem
\* the item feed.addItem receives for one article
RssItem(article) ==
    [title |-> article.title,
     id |-> article.url,
     link |-> article.url,
     description |-> IF IsNullish(article.description) THEN <<>>
                     ELSE article.description.v,
     date |-> IF article.publishedAt.t = "string"
                 /\ article.publishedAt.v # <<>>
                 /\ IsParsableDate(article.publishedAt.v)
              THEN article.publishedAt.v ELSE Now,
     author |-> IF article.author.t = "string" /\ article.author.v # <<>>
                THEN <<article.author.v>> ELSE <<>>]

\* variant: the items are added from the last article to the first
GenerateRssXmlNewestLast(sourceUrl, title, description, articles) ==
    [title |-> title,
     description |-> description,
     id |-> sourceUrl,
     link |-> sourceUrl,
     updated |-> Now,
     copyrightHost |-> Hostname(sourceUrl),
     items |-> [i \in 1..Len(articles) |-> RssItem(articles[Len(articles) + 1 - i])]]

GenerateRssXml(sourceUrl, title, description, articles) ==
    [title |-> title,
     description |-> description,
     id |-> sourceUrl,
     link |-> sourceUrl,
     updated |-> Now,
     copyrightHost |-> Hostname(sourceUrl),
     items |-> [i \in 1..Len(articles) |-> RssItem(articles[i])]]

---------------------------------------------------------------------------
(* Inputs of an extractFeed call: urls, pages, extractor answers *)

SourceUrl == HttpPrefix \o <<"h","/">>
FtpUrl == <<"f","t","p",":","/","/","h","/">>

\* url arguments of a direct call; the last four are not http(s) URLs
DirectUrls ==
    { SourceUrl,
      HttpsPrefix \o <<"H","/","b","/">>,
      FtpUrl,
      <<"h","/","x">>,
      HttpPrefix,
      <<>> }

\* url arguments the renderer sends to the generate-feed handler
IpcUrls ==
    { Undef, Str(<<>>), Str(<<" "," ">>), Str(<<" ">> \o SourceUrl \o <<" ">>),
      Str(SourceUrl), Str(FtpUrl), Str(<<"h","/","x">>) }

Element(href, heading, text, summary, timeDatetime) ==
    [href |-> href, heading |-> heading, text |-> text, summary |-> summary,
     timeDatetime |-> timeDatetime, anyDatetime |-> Undef, timeText |-> <<>>,
     relAuthor |-> <<>>, classAuthor |-> <<>>]

DigitChars == <<"0","1","2","3","4","5","6","7","8","9">>

RECURSIVE Decimal(_)
Decimal(n) ==
    IF n < 10 THEN <<DigitChars[n + 1]>>
    ELSE Decimal(n \div 10) \o <<DigitChars[(n % 10) + 1]>>

NewsPath(k) == <<"/","n","e","w","s","/">> \o Decimal(k)

C_News1 == Element(Str(NewsPath(1)), <<"A"," "," ","b">>, <<"x">>, <<"s">>,
                   Str(<<"2","0","2","4">>))
C_Abs2 == Element(Str(SourceUrl \o <<"p","2">>), <<>>, <<"T","w","o">>, <<>>, Undef)
C_Dup1 == Element(Str(NewsPath(1)), <<"D","u","p">>, <<>>, <<>>, Str(<<"s","o","o","n">>))
C_NoLink == Element(Undef, <<"N">>, <<>>, <<>>, Undef)
C_Mail == Element(Str(<<"m","a","i","l","t","o",":","x">>), <<"M">>, <<>>, <<>>, Undef)
C_NoTitle == Element(Str(NewsPath(3)), <<" ">>, <<>>, <<>>, Undef)

A_News1 == Element(Str(NewsPath(1)), <<>>, <<"L","i","n","k"," ","1">>, <<>>, Undef)
A_Blog == Element(Str(<<"/","b","l","o","g","/","x">>), <<>>, <<"B","l","o","g"," ","x">>,
                  <<"d">>, Undef)
A_About == Element(Str(<<"/","a","b","o","u","t">>), <<>>, <<"A","b","o","u","t">>,
                   <<>>, Undef)
A_Short == Element(Str(NewsPath(9)), <<>>, <<"a","b">>, <<>>, Undef)
A_Other == Element(Str(HttpPrefix \o <<"o">> \o NewsPath(1)), <<>>,
                   <<"O","t","h","e","r">>, <<>>, Undef)
A_Slug == Element(Str(<<"/","a","/","l","o","n","g","-","s","l","u","g","-","a","b","c">>),
                  <<>>, <<"S","l","u","g","g","y">>, <<>>, Undef)
A_Date == Element(Str(<<"/","2","0","2","4","/","1","/","x">>), <<>>,
                  <<"D","a","t","e","d">>, <<>>, Undef)
A_Pdf == Element(Str(NewsPath(1) \o <<".","p","d","f">>), <<>>, <<"P","a","p","e","r">>,
                 <<>>, Undef)
A_Query == Element(Str(<<"/","q","?","p","=","7">>), <<>>, <<"Q","u","e","r","y">>,
                   <<>>, Undef)

\* n elements, the k-th pointing at /news/((k-1) mod period + 1)
ManyElements(n, period) ==
    [k \in 1..n |-> Element(Str(NewsPath(((k - 1) % period) + 1)), <<>>,
                            <<"I","t","e","m"," ">> \o Decimal(k), <<>>, Undef)]

\* (containers, anchors) of the pages
SmallBodies ==
    { <<<<>>, <<>>>>,
      <<<<C_News1>>, <<>>>>,
      <<<<C_News1, C_Abs2>>, <<A_Blog>>>>,
      <<<<C_News1, C_Dup1>>, <<A_News1, A_Blog>>>>,
      <<<<C_Dup1, C_News1, C_Abs2>>, <<>>>>,
      <<<<C_NoLink, C_Mail, C_NoTitle>>, <<A_About, A_Short, A_Other, A_Pdf>>>>,
      <<<<C_NoLink>>, <<A_Slug, A_Date, A_Query, A_Slug>>>>,
      <<<<>>, <<A_Blog, A_News1>>>> }

\* bodies with more elements than MAX_ARTICLES
LargeBodies ==
    { <<ManyElements(MAX_ARTICLES + MaxOverflow, MAX_ARTICLES + MaxOverflow), <<>>>>,
      <<ManyElements(MAX_ARTICLES + MaxOverflow, MAX_ARTICLES), <<A_Blog>>>>,
      <<<<C_Abs2>>, ManyElements(MAX_ARTICLES + MaxOverflow, MAX_ARTICLES + MaxOverflow)>> }

Link(rel, type, href) == [rel |-> rel, type |-> type, href |-> href]

RssType == <<"a","p","p","/","R","S","S","+","x","m","l">>
AtomType == <<"a","t","o","m">>
FeedPath(k) == <<"/","f">> \o Decimal(k)

L_Rss(k) == Link(Str(AlternateWord), Str(RssType), Str(FeedPath(k)))
L_Atom == Link(Str(<<"A","l","t","e","r","n","a","t","e"," ","x">>), Str(AtomType),
               Str(SourceUrl \o <<"a","t","o","m">>))
L_Css == Link(Str(<<"s","t","y","l","e">>), Str(<<"c","s","s">>), Str(<<"/","c">>))
L_NoType == Link(Str(AlternateWord), Undef, Str(<<"/","n">>))
L_Ftp == Link(Str(AlternateWord), Str(RssType), Str(FtpUrl))
L_Empty == Link(Str(AlternateWord), Str(RssType), Str(<<>>))

LinkLists ==
    { <<>>,
      <<L_Css, L_NoType, L_Ftp, L_Empty>>,
      <<L_Rss(1)>>,
      <<L_Css, L_Rss(1), L_Rss(1), L_Atom, L_Rss(2)>>,
      [k \in 1..(MAX_FEED_LINKS + MaxOverflow) |-> L_Rss(k)] }

Page(links, body, ogSiteName, titleTag, metaDescription) ==
    [links |-> links, containers |-> body[1], anchors |-> body[2],
     ogSiteName |-> ogSiteName, titleTag |-> titleTag,
     metaDescription |-> metaDescription]

PlainBody == <<<<C_News1, C_Abs2>>, <<A_Blog>>>>

Pages ==
    { Page(links, PlainBody, Undef, <<>>, Undef) : links \in LinkLists }
    \cup { Page(links, body, Undef, <<" ","T"," ">>, Str(<<"D">>)) :
              links \in { <<>>, <<L_Rss(1)>> }, body \in SmallBodies }
    \cup { Page(<<>>, body, Undef, <<" ","T"," ">>, Str(<<"D">>)) : body \in LargeBodies }
    \cup { Page(<<L_Rss(1)>>, <<<<>>, <<>>>>, og, <<>>, Undef) :
              og \in { Str(<<"S","i","t","e">>), Str(<<" ">>) } }

NoPage == Page(<<>>, <<<<>>, <<>>>>, Undef, <<>>, Undef)

HtmlType == <<"t","e","x","t","/","H","T","M","L",";","u">>
XhtmlType == <<"a","p","p","l","i","c","a","t","i","o","n","/","x","h","t","m","l","+","x","m","l">>
JsonType == <<"j","s","o","n">>

\* what axios answers to the page request
HtmlResponses ==
    { [failed |-> TRUE, contentType |-> <<>>, isString |-> FALSE, page |-> NoPage] }
    \cup { [failed |-> FALSE, contentType |-> JsonType, isString |-> TRUE, page |-> NoPage],
           [failed |-> FALSE, contentType |-> HtmlType, isString |-> FALSE, page |-> NoPage] }
    \cup [failed : {FALSE}, contentType : {HtmlType}, isString : {TRUE}, page : Pages]
    \cup [failed : {FALSE}, contentType : {<<>>, XhtmlType}, isString : {TRUE},
          page : {Page(<<>>, PlainBody, Undef, <<>>, Undef)}]

EntryDefaults ==
    [t |-> "object", title |-> Undef, summary |-> Undef, contentSnippet |-> Undef,
     link |-> Undef, url |-> Undef, id |-> Undef, description |-> Undef,
     content |-> Undef, published |-> Undef, pubDate |-> Undef, isoDate |-> Undef,
     publishedAt |-> Undef, author |-> Undef, authors |-> Undef]

EntryUrl(k) == SourceUrl \o <<"e">> \o Decimal(k)

E_One == [EntryDefaults EXCEPT !.title = Str(<<"O","n","e">>),
                               !.link = Str(EntryUrl(1)),
                               !.description = Str(<<"d">>),
                               !.published = Str(<<"2","0","2","4">>),
                               !.author = Str(<<"A","n","n">>)]
E_DupOne == [EntryDefaults EXCEPT !.title = Str(<<"D","u","p">>),
                                  !.url = Str(EntryUrl(1)),
                                  !.id = Str(EntryUrl(7)),
                                  !.pubDate = Str(<<"s","o","o","n">>)]
E_Summary == [EntryDefaults EXCEPT !.summary = Str(<<" ","S","u","m"," "," ","2">>),
                                   !.id = Str(EntryUrl(3)),
                                   !.authors = Arr(<<[t |-> "object",
                                                      name |-> Str(<<"B","o","b">>)]>>)]
E_EmptyTitle == [EntryDefaults EXCEPT !.title = Str(<<>>),
                                      !.summary = Str(<<"S">>),
                                      !.link = Str(EntryUrl(4))]
E_Ftp == [EntryDefaults EXCEPT !.title = Str(<<"F">>), !.link = Str(FtpUrl)]

\* entry lists of a parsed feed: empty, all entries dropped, duplicates of
\* one url in both orders, dropped entries between kept ones
EntryLists ==
    { <<>>,
      <<E_EmptyTitle, E_Ftp, Null>>,
      <<E_One>>,
      <<E_One, E_DupOne>>,
      <<E_DupOne, E_Summary, E_One>>,
      <<Null, E_Summary, E_Ftp, E_DupOne, E_Summary>> }

\* n entries, the k-th linking to entry url ((k-1) mod period + 1)
ManyEntries(n, period) ==
    [k \in 1..n |-> [EntryDefaults EXCEPT
                        !.title = Str(<<"N","o"," ">> \o Decimal(k)),
                        !.link = Str(EntryUrl(((k - 1) % period) + 1))]]

FeedDoc(title, description, entries, items) ==
    [t |-> "object", title |-> title, description |-> description,
     entries |-> entries, items |-> items]

\* what the feed-parsing library answers for one candidate url
ExtractorAnswers ==
    { Thrown, Null, Str(<<"x">>),
      FeedDoc(Undef, Undef, Undef, Undef),
      FeedDoc(Undef, Str(<<"a"," "," ","b">>), Undef, Arr(<<E_Summary, E_One>>)),
      FeedDoc(Str(<<" ">>), Undef, Str(<<"x">>), Arr(<<E_One>>)),
      FeedDoc(Str(<<"B","i","g">>), Undef,
              Arr(ManyEntries(MAX_ARTICLES + MaxOverflow, MAX_ARTICLES + MaxOverflow)),
              Undef),
      FeedDoc(Str(<<"B","i","g">>), Undef,
              Arr(ManyEntries(MAX_ARTICLES + MaxOverflow, MAX_ARTICLES + MaxOverflow - 1)),
              Undef) }
    \cup { FeedDoc(Str(<<"F","e","e","d">>), Undef, Arr(entries), Arr(<<E_One>>)) :
              entries \in EntryLists }

\* the exports of the feed-parsing library as the module finds them
ExtractorLibs ==
    { [extract |-> Function, extractFromUrl |-> Undef, default |-> Undef],
      [extract |-> Null, extractFromUrl |-> Undef, default |-> Function],
      [extract |-> Undef, extractFromUrl |-> Undef, default |-> Undef],
      [extract |-> Str(<<"x">>), extractFromUrl |-> Function, default |-> Function] }

RulesObject(titleIncludes, titleExcludes, skipTopCount) ==
    [t |-> "object", titleIncludes |-> titleIncludes, titleExcludes |-> titleExcludes,
     urlIncludes |-> Undef, urlExcludes |-> Undef, descriptionRequired |-> Undef,
     publishedAtRequired |-> Undef, skipTopCount |-> skipTopCount]

\* rule sets a caller hands to extractFeed
RawCallRules ==
    { Undef,
      RulesObject(Arr(<<>>), Str(<<"x">>), Num(0)),
      RulesObject(Undef, Arr(<<Str(<<" ","d","U","P"," ">>)>>), Half(3)),
      RulesObject(Arr(<<Str(<<"z","z">>)>>), Undef, Undef) }

\* what getRulesBySourceUrl answers: it throws, or returns the compact form
\* of the stored rules (null when nothing is stored)
StorageAnswers ==
    { Thrown, Null }
    \cup { CompactSourceRules(NormalizeSourceRules(r)) : r \in RawCallRules }

---------------------------------------------------------------------------
(* scraper: the result of extractFeed *)

\* the FeedResult once the rule engine has answered
FeedResultOf(url, feed, method, applied) ==
    [sourceUrl |-> url,
     feedTitle |-> feed.title,
     feedDescription |-> feed.description,
     articles |-> applied.articles,
     originalArticleCount |-> Len(feed.articles),
     skippedTopCount |-> applied.skippedTopCount,
     ruleFilteredCount |-> applied.ruleFilteredCount,
     filteredOutCount |-> applied.filteredOutCount,
     appliedRules |-> applied.appliedRules,
     rssXml |-> GenerateRssXml(url, feed.title, feed.description, applied.articles),
     method |-> method]

\* variant: the document is synthesized from the list before the rules
BuildFeedResultFromUnfiltered(url, feed, method, rules) ==
    [FeedResultOf(url, feed, method, ApplySourceRules(feed.articles, rules))
        EXCEPT !.rssXml = GenerateRssXml(url, feed.title, feed.description, feed.articles)]

\* The FeedResult extractFeed assembles from the extracted feed: the rule
\* engine filters the articles, the document is synthesized from what is
\* kept, and the statistics are reported next to the pre-filter count.
BuildFeedResult(url, feed, method, rules) ==
    FeedResultOf(url, feed, method, ApplySourceRules(feed.articles, rules))

NoFeedResult == BuildFeedResult(<<>>, NoFeed, "none", Undef)

Pending == [status |-> "pending", error |-> "none", result |-> NoFeedResult]
Failed(error) == [status |-> "error", error |-> error, result |-> NoFeedResult]
Returned(result) == [status |-> "ok", error |-> "none", result |-> result]

NoResponse == [state |-> "none", error |-> "none", data |-> NoFeedResult]
Failure(error) == [state |-> "failure", error |-> error, data |-> NoFeedResult]
Success(data) == [state |-> "success", error |-> "none", data |-> data]

NotReturned == [state |-> "pending", feed |-> NoFeed]
ReturnedNull == [state |-> "null", feed |-> NoFeed]
ReturnedFeed(feed) == [state |-> "feed", feed |-> feed]

NotRun == [state |-> "notrun", feed |-> NoFeed]

\* fetchHtml: "none", or the error it throws on this response
FetchHtmlError(response) ==
    IF response.failed THEN "RequestFailed"
    ELSE IF response.contentType # <<>>
            /\ ~Includes(ToLowerCase(response.contentType), <<"t","e","x","t","/","h","t","m","l">>)
            /\ ~Includes(ToLowerCase(response.contentType),
                         <<"a","p","p","l","i","c","a","t","i","o","n","/","x","h","t","m","l","+","x","m","l">>)
         THEN "NotHtml"
    ELSE IF ~response.isString THEN "HtmlFetchFailed"
    ELSE "none"

\* the validation at the head of extractFeed: "none", or the error thrown
ValidateUrl(url) ==
    IF ~IsHttpUrl(url) THEN "InvalidUrl"
    ELSE IF ~IsHttpProtocol(ParseUrl(url).protocol) THEN "UnsupportedProtocol"
    ELSE "none"

---------------------------------------------------------------------------
(* The state machine of one call *)

\* extractFeed throws: the promise rejects; the generate-feed handler turns
\* the rejection into a failure response
Reject(who, error) ==
    /\ outcome' = Failed(error)
    /\ ipcResponse' = IF who = "ipc" THEN Failure(error) ELSE ipcResponse
    /\ pc' = "done"

\* variant: the handler answers success with whatever extractFeed returned
ResolveWithoutArticleCheck(who, result) ==
    /\ outcome' = Returned(result)
    /\ ipcResponse' = IF who # "ipc" THEN ipcResponse ELSE Success(result)
    /\ pc' = "done"

\* extractFeed returns result: the handler answers success only with articles
ResolveWith(who, result) ==
    /\ outcome' = Returned(result)
    /\ ipcResponse' = IF who # "ipc" THEN ipcResponse
                      ELSE IF Len(result.articles) = 0 THEN Failure("NoArticles")
                      ELSE Success(result)
    /\ pc' = "done"

Resolve(who, feed, method, rules) ==
    ResolveWith(who, BuildFeedResult(reqUrl, feed, method, rules))

\* variant: the page request is issued before the argument is rejected
EnterValidatedAfterFetch(who, url, error) ==
    /\ fetchLog' = Append(fetchLog, [kind |-> "html", url |-> url])
    /\ IF error # "none"
       THEN Reject(who, error)
       ELSE /\ pc' = "awaitHtml"
            /\ UNCHANGED <<outcome, ipcResponse>>

\* extractFeed once its argument is validated, up to the await of fetchHtml
EnterValidated(who, url, error) ==
    IF error # "none"
    THEN /\ Reject(who, error)
         /\ UNCHANGED fetchLog
    ELSE /\ fetchLog' = Append(fetchLog, [kind |-> "html", url |-> url])
         /\ pc' = "awaitHtml"
         /\ UNCHANGED <<outcome, ipcResponse>>

\* extractFeed from its first line to the await of fetchHtml
EnterExtractFeed(who, url, rules) ==
    /\ extractCalls' = extractCalls + 1
    /\ reqUrl' = url
    /\ reqRules' = rules
    /\ EnterValidated(who, url, ValidateUrl(url))

\* variant: the result of the heuristic carries the label of feed discovery
HeuristicSettledMislabelled(heuristic) ==
    IF heuristic.ok
    THEN /\ heuristicFeed' = ReturnedFeed(heuristic.feed)
         /\ Resolve(caller, heuristic.feed, "rss-auto-detect", reqRules)
    ELSE /\ heuristicFeed' = ReturnedNull
         /\ Reject(caller, "NoArticlesExtracted")

\* extractHeuristically returned or threw
HeuristicSettled(heuristic) ==
    IF heuristic.ok
    THEN /\ heuristicFeed' = ReturnedFeed(heuristic.feed)
         /\ Resolve(caller, heuristic.feed, "heuristic", reqRules)
    ELSE /\ heuristicFeed' = ReturnedNull
         /\ Reject(caller, "NoArticlesExtracted")

\* tryAutoDetectFeeds returned null: extractHeuristically, then the result
FallBackToHeuristic(page) ==
    /\ autoDetected' = ReturnedNull
    /\ heuristicRuns' = heuristicRuns + 1
    /\ linkScans' = linkScans + LinkScansOf(ExtractFromContainers(page, reqUrl))
    /\ HeuristicSettled(ExtractHeuristically(reqUrl, page))

\* a caller (the batch updater, a test) calls extractFeed(url, {rules})
DirectCall(url, rules) ==
    /\ pc = "idle"
    /\ caller' = "direct"
    /\ EnterExtractFeed("direct", url, rules)
    /\ UNCHANGED <<besidesCall, extractorLib, ipcUrl, html, feedLinks, candIdx, lastAnswer,
                   autoDetected, heuristicRuns, linkScans, heuristicFeed, storageReads>>

\* the generate-feed handler on the trimmed url
HandleNormalizedUrl(normalizedUrl) ==
    IF normalizedUrl = <<>>
    THEN /\ ipcResponse' = Failure("EmptyUrl")
         /\ pc' = "done"
         /\ UNCHANGED <<reqUrl, storageReads>>
    ELSE IF ~IsValidHttpUrl(normalizedUrl)
    THEN /\ ipcResponse' = Failure("InvalidUrl")
         /\ pc' = "done"
         /\ UNCHANGED <<reqUrl, storageReads>>
    ELSE /\ storageReads' = storageReads + 1
         /\ reqUrl' = normalizedUrl
         /\ pc' = "awaitRules"
         /\ UNCHANGED ipcResponse

\* the generate-feed handler up to the await of getRulesBySourceUrl
IpcGenerateFeed(url) ==
    /\ pc = "idle"
    /\ caller' = "ipc"
    /\ ipcUrl' = url
    /\ HandleNormalizedUrl(Trim(AttrText(url)))
    /\ UNCHANGED <<besidesCall, extractorLib, reqRules, html, feedLinks, candIdx,
                   lastAnswer, autoDetected, heuristicRuns, linkScans, heuristicFeed,
                   fetchLog, extractCalls, outcome>>

\* getRulesBySourceUrl settles; on success the handler calls extractFeed
RulesLoaded(answer) ==
    /\ pc = "awaitRules"
    /\ IF answer = Thrown
       THEN /\ ipcResponse' = Failure("RuleStorage")
            /\ pc' = "done"
            /\ UNCHANGED <<reqUrl, reqRules, fetchLog, extractCalls, outcome>>
       ELSE EnterExtractFeed("ipc", reqUrl, answer)
    /\ UNCHANGED <<besidesCall, caller, extractorLib, ipcUrl, html, feedLinks, candIdx,
                   lastAnswer, autoDetected, heuristicRuns, linkScans, heuristicFeed,
                   storageReads>>

\* variant: the loop is entered whenever the page advertises a feed link,
\* whether or not the library exports an extractor
StartDiscoveryIgnoringExtractor(page, links, extractor) ==
    /\ html' = page
    /\ feedLinks' = links
    /\ IF Len(links) = 0
       THEN /\ FallBackToHeuristic(page)
            /\ UNCHANGED <<candIdx, fetchLog>>
       ELSE /\ candIdx' = 1
            /\ fetchLog' = Append(fetchLog, [kind |-> "feed", url |-> links[1]])
            /\ pc' = "awaitFeed"
            /\ UNCHANGED <<outcome, ipcResponse, autoDetected,
                           heuristicRuns, linkScans, heuristicFeed>>

\* tryAutoDetectFeeds from its first line to the first await of the extractor
StartDiscovery(page, links, extractor) ==
    /\ html' = page
    /\ feedLinks' = links
    /\ IF extractor = "none" \/ Len(links) = 0
       THEN /\ FallBackToHeuristic(page)
            /\ UNCHANGED <<candIdx, fetchLog>>
       ELSE /\ candIdx' = 1
            /\ fetchLog' = Append(fetchLog, [kind |-> "feed", url |-> links[1]])
            /\ pc' = "awaitFeed"
            /\ UNCHANGED <<outcome, ipcResponse, autoDetected,
                           heuristicRuns, linkScans, heuristicFeed>>

\* fetchHtml returned or threw
HtmlSettled(response, error) ==
    IF error # "none"
    THEN /\ Reject(caller, error)
         /\ UNCHANGED <<html, feedLinks, candIdx, autoDetected, heuristicRuns, linkScans,
                        heuristicFeed, fetchLog>>
    ELSE StartDiscovery(response.page,
                        DetectFeedLinks(response.page, reqUrl),
                        PickExtractor(extractorLib))

\* fetchHtml settles; tryAutoDetectFeeds runs up to its first await
HtmlFetched(response) ==
    /\ pc = "awaitHtml"
    /\ HtmlSettled(response, FetchHtmlError(response))
    /\ UNCHANGED <<besidesCall, caller, extractorLib, ipcUrl, reqUrl, reqRules,
                   lastAnswer, storageReads, extractCalls>>

\* the rest of the loop body once the candidate is probed
ProbeSettled(probe) ==
    IF probe.found
    THEN /\ autoDetected' = ReturnedFeed(probe.feed)
         /\ Resolve(caller, probe.feed, "rss-auto-detect", reqRules)
         /\ UNCHANGED <<candIdx, fetchLog, heuristicRuns, linkScans, heuristicFeed>>
    ELSE IF candIdx < Len(feedLinks)
    THEN /\ candIdx' = candIdx + 1
         /\ fetchLog' = Append(fetchLog,
                               [kind |-> "feed", url |-> feedLinks[candIdx + 1]])
         /\ UNCHANGED <<pc, outcome, ipcResponse, autoDetected,
                        heuristicRuns, linkScans, heuristicFeed>>
    ELSE /\ FallBackToHeuristic(html)
         /\ UNCHANGED <<candIdx, fetchLog>>

\* the extractor settles for candidate candIdx: the body of the for loop of
\* tryAutoDetectFeeds, up to the next await or to the end of extractFeed
FeedFetched(answer) ==
    /\ pc = "awaitFeed"
    /\ lastAnswer' = answer
    /\ ProbeSettled(ProbeCandidate(answer, html, reqUrl))
    /\ UNCHANGED <<besidesCall, caller, extractorLib, ipcUrl, reqUrl, reqRules, html, feedLinks,
                   storageReads, extractCalls>>

\* applySourceRules(articles, rulesInput) on the harness inputs
ApplyRules ==
    /\ ruleResult = NoResult
    /\ ruleResult' = ApplySourceRules(ruleArticles, ruleInput)
    /\ UNCHANGED <<ruleArticles, ruleInput, besidesRules>>

IdleCall ==
    /\ pc = "idle"
    /\ caller = "none"
    /\ ipcUrl = Undef
    /\ reqUrl = <<>>
    /\ reqRules = Undef
    /\ html = NoPage
    /\ feedLinks = <<>>
    /\ candIdx = 0
    /\ lastAnswer = Undef
    /\ autoDetected = NotReturned
    /\ heuristicRuns = 0
    /\ linkScans = 0
    /\ heuristicFeed = NotRun
    /\ fetchLog = <<>>
    /\ storageReads = 0
    /\ extractCalls = 0
    /\ outcome = Pending
    /\ ipcResponse = NoResponse

---------------------------------------------------------------------------
(* githubPublisher: the path of a source's feed file *)

HexChars == DigitChars \o <<"a","b","c","d","e","f">>

\* the characters of the inputs, in the order localeCompare gives them
CodeTable == <<"-",".","/",":","_","?","="," ">> \o DigitChars \o LowerChars \o UpperChars

CharCode(c) ==
    IF \E i \in 1..Len(CodeTable) : CodeTable[i] = c
    THEN CHOOSE i \in 1..Len(CodeTable) : CodeTable[i] = c
    ELSE 0

RECURSIVE MixFrom(_, _, _)
MixFrom(text, i, h) ==
    IF i > Len(text) THEN h
    ELSE MixFrom(text, i + 1, (h * 31 + CharCode(text[i]) + 1) % 65521)

\* createHash("sha256").update(text).digest("hex"): the digest is computed by
\* node:crypto; it is modelled as 64 hexadecimal digits mixed from the
\* characters of the text and from nothing else
HexDigits(h) == [k \in 1..64 |-> HexChars[(((h + k) * (k + 7)) % 16) + 1]]

Sha256Hex(text) == HexDigits(MixFrom(text, 1, 7))

IsSegmentChar(c) ==
    \/ \E i \in 1..26 : LowerChars[i] = c
    \/ IsDigit(c)
    \/ c \in {".", "-"}

\* replace(/[^a-z0-9.-]+/g, "-"): each run of other characters becomes one "-"
RECURSIVE ReplaceRuns(_, _, _, _)
ReplaceRuns(s, i, inRun, acc) ==
    IF i > Len(s) THEN acc
    ELSE IF IsSegmentChar(s[i]) THEN ReplaceRuns(s, i + 1, FALSE, Append(acc, s[i]))
    ELSE IF inRun THEN ReplaceRuns(s, i + 1, TRUE, acc)
    ELSE ReplaceRuns(s, i + 1, TRUE, Append(acc, "-"))

\* replace(/^-+|-+$/g, "")
StripDashes(s) ==
    IF \A i \in 1..Len(s) : s[i] = "-" THEN <<>>
    ELSE SubSeq(s,
                CHOOSE i \in 1..Len(s) : s[i] # "-" /\ \A j \in 1..(i - 1) : s[j] = "-",
                CHOOSE i \in 1..Len(s) : s[i] # "-" /\ \A j \in (i + 1)..Len(s) : s[j] = "-")

UnknownSegment == <<"u","n","k","n","o","w","n">>

SanitizePathSegment(value) ==
    OrText(StripDashes(ReplaceRuns(ToLowerCase(value), 1, FALSE, <<>>)), UnknownSegment)

FeedsDir == <<"f","e","e","d","s","/">>
XmlSuffix == <<".","x","m","l">>

\* variant: the digest also covers the number of publishes made so far
BuildFeedPathPerPublish(sourceUrl) ==
    FeedsDir \o SanitizePathSegment(Hostname(sourceUrl)) \o <<"/">>
    \o SliceTo(Sha256Hex(sourceUrl \o Decimal(Len(publishLog))), 16) \o XmlSuffix

\* buildFeedPath; new URL(sourceUrl) has to succeed, see CanBuildFeedPath
BuildFeedPath(sourceUrl) ==
    FeedsDir \o SanitizePathSegment(Hostname(sourceUrl)) \o <<"/">>
    \o SliceTo(Sha256Hex(sourceUrl), 16) \o XmlSuffix

\* FALSE stands for the TypeError of new URL(sourceUrl)
CanBuildFeedPath(sourceUrl) == ParseUrl(sourceUrl).ok

---------------------------------------------------------------------------
(* update-feeds: the batch updater *)

\* -1, 0 or 1 as the text a sorts before, with or after the text b
RECURSIVE CompareFrom(_, _, _)
CompareFrom(a, b, i) ==
    IF i > Len(a) /\ i > Len(b) THEN 0
    ELSE IF i > Len(a) THEN -1
    ELSE IF i > Len(b) THEN 1
    ELSE IF CharCode(a[i]) < CharCode(b[i]) THEN -1
    ELSE IF CharCode(a[i]) > CharCode(b[i]) THEN 1
    ELSE CompareFrom(a, b, i + 1)

LocaleCompare(a, b) == CompareFrom(a, b, 1)

\* a sorted list of distinct texts with one more text
InsertSorted(sorted, text) ==
    IF \E k \in 1..Len(sorted) : sorted[k] = text THEN sorted
    ELSE SelectSeq(sorted, LAMBDA other : LocaleCompare(other, text) < 0)
         \o <<text>>
         \o SelectSeq(sorted, LAMBDA other : LocaleCompare(other, text) > 0)

RECURSIVE SortedDistinctFrom(_, _, _)
SortedDistinctFrom(paths, i, sorted) ==
    IF i > Len(paths) THEN sorted
    ELSE SortedDistinctFrom(paths, i + 1, InsertSorted(sorted, paths[i]))

\* Array.from(new Set(paths)).sort(localeCompare)
EnsureUniquePaths(paths) == SortedDistinctFrom(paths, 1, <<>>)

MaxSources == 3

BatchUrlA == SourceUrl
BatchUrlB == HttpsPrefix \o <<"H","_","x","/","a">>

SourceConfig(name, url, enabled) == [name |-> name, url |-> url, enabled |-> enabled]

\* the rows readSourcesConfig returns: a name, an http(s) URL, and enabled as
\* a boolean or undefined
SourcePool ==
    { SourceConfig(<<"a">>, BatchUrlA, enabled) : enabled \in {Bool(TRUE), Bool(FALSE), Undef} }
    \cup { SourceConfig(<<"b">>, BatchUrlB, enabled) : enabled \in {Bool(FALSE), Undef} }

SourceLists == SeqsUpTo(SourcePool, MaxSources)

\* the file a list of validated rows is read from
ConfigFileOf(rows) ==
    [t |-> "object", version |-> Num(1),
     sources |-> Arr([i \in 1..Len(rows) |->
                        [t |-> "object", name |-> Str(rows[i].name),
                         url |-> Str(rows[i].url), enabled |-> rows[i].enabled]])]

Unparsable == [t |-> "unparsable"]

\* normalizeText(typeof value === "string" ? value : "")
NormalizeText(value) == IF value.t = "string" THEN Trim(value.v) ELSE <<>>

\* the error the map callback of readSourcesConfig throws for one row
RowError(item) ==
    IF item.t # "object" THEN "BadRow"
    ELSE IF NormalizeText(item.name) = <<>> THEN "NoName"
    ELSE IF NormalizeText(item.url) = <<>> \/ ~IsHttpUrl(NormalizeText(item.url))
    THEN "BadUrl"
    ELSE "none"

\* the row the map callback returns
ReadRow(item) ==
    SourceConfig(NormalizeText(item.name), NormalizeText(item.url),
                 IF item.enabled.t = "boolean" THEN item.enabled ELSE Undef)

\* the error readSourcesConfig throws for the parsed file, "none" when it
\* returns; an array is an object without version
ConfigError(parsed) ==
    IF parsed = Unparsable THEN "BadJson"
    ELSE IF parsed.t \notin {"object", "array"} THEN "BadShape"
    ELSE IF parsed.t = "array" \/ parsed.version # Num(1) THEN "BadVersion"
    ELSE IF parsed.sources.t # "array" THEN "SourcesNotArray"
    ELSE IF \E i \in 1..Len(parsed.sources.v) : RowError(parsed.sources.v[i]) # "none"
    THEN RowError(parsed.sources.v[CHOOSE i \in 1..Len(parsed.sources.v) :
                     /\ RowError(parsed.sources.v[i]) # "none"
                     /\ \A j \in 1..(i - 1) : RowError(parsed.sources.v[j]) = "none"])
    ELSE "none"

ReadSources(parsed) ==
    [i \in 1..Len(parsed.sources.v) |-> ReadRow(parsed.sources.v[i])]

\* run from its first line to the return of readSourcesConfig
ConfigSettled(error) ==
    IF error # "none"
    THEN /\ runOutcome' = error
         /\ batchPc' = "done"
         /\ UNCHANGED sources
    ELSE /\ sources' = ReadSources(rawConfig)
         /\ batchPc' = "start"
         /\ UNCHANGED runOutcome

ConfigRead ==
    /\ batchPc = "read"
    /\ ConfigSettled(ConfigError(rawConfig))
    /\ UNCHANGED <<rawConfig, enabledSources, sourceIdx, desiredPaths, successfulPaths,
                   failedSources, extractLog, outputFiles, meta>>
    /\ UNCHANGED besidesBatch

\* rows of a configuration file: kept rows, and rows the reader rejects
RawRow(name, url, enabled) ==
    [t |-> "object", name |-> name, url |-> url, enabled |-> enabled]

GoodRawRows ==
    { RawRow(Str(<<" ","a"," ">>), Str(BatchUrlA), Bool(TRUE)),
      RawRow(Str(<<"b">>), Str(<<" ">> \o BatchUrlB), Str(<<"n","o">>)),
      RawRow(Str(<<"c">>), Str(BatchUrlB), Bool(FALSE)) }

BadRawRows ==
    { Null,
      RawRow(Str(<<" ">>), Str(BatchUrlA), Bool(TRUE)),
      RawRow(Num(1), Str(BatchUrlA), Undef),
      RawRow(Str(<<"f">>), Str(FtpUrl), Bool(TRUE)),
      RawRow(Str(<<"u">>), Undef, Bool(TRUE)) }

ConfigObject(version, rows) == [t |-> "object", version |-> version, sources |-> rows]

\* what JSON.parse gives for the configuration file
RawConfigs ==
    { Unparsable, Null, Str(<<"x">>), Arr(<<>>),
      ConfigObject(Undef, Arr(<<>>)),
      ConfigObject(Num(2), Arr(<<>>)),
      ConfigObject(Str(<<"1">>), Arr(<<>>)),
      ConfigObject(Num(1), Undef),
      ConfigObject(Num(1), Str(<<"x">>)) }
    \cup { ConfigObject(Num(1), Arr(rows)) : rows \in SeqsUpTo(GoodRawRows, MaxSources) }
    \cup { ConfigObject(Num(1), Arr(<<good, bad>>)) :
              good \in GoodRawRows, bad \in BadRawRows }
    \cup { ConfigObject(Num(1), Arr(<<bad>>)) : bad \in BadRawRows }

RssDocument == <<"<","r","s","s","/",">">>

ExtractThrew(message) == [threw |-> TRUE, message |-> message, rssXml |-> <<>>]
ExtractGave(rssXml) == [threw |-> FALSE, message |-> "none", rssXml |-> rssXml]

\* what `await extractFeed(source.url)` can settle with
ExtractOutcomes ==
    { ExtractThrew("NoArticlesExtracted"),
      ExtractGave(<<>>), ExtractGave(<<" ">>), ExtractGave(RssDocument) }

FeedFile(path, text) == [path |-> path, text |-> text]

StaleFile == FeedFile(FeedsDir \o <<"o","l","d">>, <<"o","l","d">>)

\* fs.writeFile on a directory held as a set of files: the file is replaced
WriteFile(files, path, text) ==
    {file \in files : file.path # path} \cup {FeedFile(path, text)}

NoMeta == [written |-> FALSE, desiredPaths |-> <<>>, successfulPaths |-> <<>>,
           failedSources |-> <<>>]

ManagedFeedsMeta(desired, successful, failed) ==
    [written |-> TRUE,
     desiredPaths |-> EnsureUniquePaths(desired),
     successfulPaths |-> EnsureUniquePaths(successful),
     failedSources |-> failed]

FailedSource(source, path, message) ==
    [name |-> source.name, url |-> source.url, path |-> path, error |-> message]

\* variant: only the sources with enabled set to true are kept
EnabledSourcesExplicitOnly(configSources) ==
    SelectSeq(configSources, LAMBDA source : source.enabled = Bool(TRUE))

\* config.sources.filter((source) => source.enabled !== false)
EnabledSources(configSources) ==
    SelectSeq(configSources, LAMBDA source : source.enabled # Bool(FALSE))

\* variant: the output directory is emptied before the enabled sources are
\* counted
StartRunClearingFirst(enabled) ==
    /\ enabledSources' = enabled
    /\ outputFiles' = {}
    /\ IF Len(enabled) = 0
       THEN runOutcome' = "NoEnabledSources" /\ batchPc' = "done"
       ELSE runOutcome' = "running" /\ batchPc' = "loop"

\* run up to the loop: no enabled source is an error, else the output
\* directory is emptied
StartRun(enabled) ==
    /\ enabledSources' = enabled
    /\ IF Len(enabled) = 0
       THEN /\ runOutcome' = "NoEnabledSources"
            /\ batchPc' = "done"
            /\ UNCHANGED outputFiles
       ELSE /\ runOutcome' = "running"
            /\ batchPc' = "loop"
            /\ outputFiles' = {}

RunStarted ==
    /\ batchPc = "start"
    /\ StartRun(EnabledSources(sources))
    /\ UNCHANGED <<rawConfig, sources, sourceIdx, desiredPaths, successfulPaths,
                   failedSources, extractLog, meta>>
    /\ UNCHANGED besidesBatch

\* the try block reaches fs.writeFile: extractFeed returned a document that
\* is not empty after trim
ReachesWrite(extraction) ==
    /\ ~extraction.threw
    /\ extraction.rssXml # <<>>
    /\ Trim(extraction.rssXml) # <<>>

\* the error the try block of one iteration ends with, "none" when it ends
\* with the file written
SourceError(extraction, written) ==
    IF extraction.threw THEN extraction.message
    ELSE IF ~ReachesWrite(extraction) THEN "EmptyRssXml"
    ELSE IF ~written THEN "WriteFailed"
    ELSE "none"

\* one call of extractFeed by the loop, and whether the file was written
Attempt(url, extraction, written) ==
    [url |-> url, settled |-> extraction, written |-> written]

\* variant: the first failing source ends the loop
SourceSettledAborting(source, path, extraction, written, error) ==
    /\ desiredPaths' = Append(desiredPaths, path)
    /\ extractLog' = Append(extractLog, Attempt(source.url, extraction, written))
    /\ IF error = "none"
       THEN /\ outputFiles' = WriteFile(outputFiles, path, extraction.rssXml)
            /\ successfulPaths' = Append(successfulPaths, path)
            /\ sourceIdx' = sourceIdx + 1
            /\ UNCHANGED failedSources
       ELSE /\ failedSources' = Append(failedSources, FailedSource(source, path, error))
            /\ sourceIdx' = Len(enabledSources)
            /\ UNCHANGED <<outputFiles, successfulPaths>>

\* one iteration of the loop over enabledSources
SourceSettled(source, path, extraction, written, error) ==
    /\ desiredPaths' = Append(desiredPaths, path)
    /\ extractLog' = Append(extractLog, Attempt(source.url, extraction, written))
    /\ sourceIdx' = sourceIdx + 1
    /\ IF error = "none"
       THEN /\ outputFiles' = WriteFile(outputFiles, path, extraction.rssXml)
            /\ successfulPaths' = Append(successfulPaths, path)
            /\ UNCHANGED failedSources
       ELSE /\ failedSources' = Append(failedSources, FailedSource(source, path, error))
            /\ UNCHANGED <<outputFiles, successfulPaths>>

\* written is the outcome of fs.mkdir and fs.writeFile, FALSE when one of
\* them throws or when the try block ends before them
SourceProcessed(extraction, written) ==
    /\ batchPc = "loop"
    /\ sourceIdx < Len(enabledSources)
    /\ written => ReachesWrite(extraction)
    /\ SourceSettled(enabledSources[sourceIdx + 1],
                     BuildFeedPath(enabledSources[sourceIdx + 1].url),
                     extraction, written, SourceError(extraction, written))
    /\ UNCHANGED <<rawConfig, batchPc, sources, enabledSources, meta, runOutcome>>
    /\ UNCHANGED besidesBatch

\* the run throws exactly when the summary has no successful path
RunResult(summary) ==
    IF Len(summary.successfulPaths) = 0 THEN "AllSourcesFailed" ELSE "ok"

\* variant: the all-failed error is raised before the summary is written
FinishRunRaisingFirst(summary) ==
    /\ meta' = IF RunResult(summary) = "ok" THEN summary ELSE meta
    /\ runOutcome' = RunResult(summary)
    /\ batchPc' = "done"

FinishRun(summary) ==
    /\ meta' = summary
    /\ runOutcome' = RunResult(summary)
    /\ batchPc' = "done"

\* after the loop: the summary is written, then the run succeeds or throws
SummaryWritten ==
    /\ batchPc = "loop"
    /\ sourceIdx = Len(enabledSources)
    /\ FinishRun(ManagedFeedsMeta(desiredPaths, successfulPaths, failedSources))
    /\ UNCHANGED <<rawConfig, sources, enabledSources, sourceIdx, desiredPaths,
                   successfulPaths, failedSources, extractLog, outputFiles>>
    /\ UNCHANGED besidesBatch

---------------------------------------------------------------------------
(* githubPublisher: publishFeedToGitHubPages *)

MaxPublishes == 2

PublishUrls ==
    { BatchUrlA, BatchUrlB, HttpPrefix \o <<"_","/">>, <<"h","/","x">> }

PublishFeedInput(sourceUrl, rssXml, feedTitle, token) ==
    [sourceUrl |-> sourceUrl, rssXml |-> rssXml, feedTitle |-> feedTitle, token |-> token]

\* what the renderer can send: the last URL is not one new URL accepts
PublishInputs ==
    { PublishFeedInput(sourceUrl, rssXml, feedTitle, token) :
        sourceUrl \in PublishUrls,
        rssXml \in {<<>>, RssDocument, RssDocument \o <<"2">>},
        feedTitle \in {<<>>, <<"T">>},
        token \in {<<" ">>, <<"t">>} }

Published(input, path) ==
    [sourceUrl |-> input.sourceUrl, rssXml |-> input.rssXml,
     feedTitle |-> input.feedTitle, path |-> path]

\* the error publishFeedToGitHubPages throws before it commits, or "none"
PublishError(input) ==
    IF Trim(input.token) = <<>> THEN "NoToken"
    ELSE IF input.rssXml = <<>> \/ Trim(input.rssXml) = <<>> THEN "EmptyRssXml"
    ELSE IF ~CanBuildFeedPath(input.sourceUrl) THEN "InvalidUrl"
    ELSE "none"

\* createOrUpdateFileContents with the sha of the file already at the path
CommitFeed(input, filePath) ==
    /\ ghPages' = WriteFile(ghPages, filePath, input.rssXml)
    /\ publishLog' = Append(publishLog, Published(input, filePath))
    /\ publishResult' = "ok"

PublishSettled(input, error) ==
    IF error # "none"
    THEN /\ publishResult' = error
         /\ UNCHANGED <<ghPages, publishLog>>
    ELSE CommitFeed(input, BuildFeedPath(input.sourceUrl))

PublishFeedToGitHubPages(input) ==
    /\ Len(publishLog) < MaxPublishes
    /\ PublishSettled(input, PublishError(input))
    /\ UNCHANGED besidesPublish

\* nothing was published
PublishUnused ==
    /\ ghPages = {}
    /\ publishLog = <<>>
    /\ publishResult = "none"

---------------------------------------------------------------------------
(* sourceConfig: the rules stored per source in feed-sources.json *)

MaxSaves == 2

UrlResult(ok, url, error) == [ok |-> ok, url |-> url, error |-> error]

\* the checks of normalizeSourceUrl on the parsed URL; ok = FALSE stands for
\* the TypeError of new URL or for the Error thrown for another protocol
CheckedUrl(parsed, text) ==
    IF ~parsed.ok THEN UrlResult(FALSE, <<>>, "InvalidUrl")
    ELSE IF ~IsHttpProtocol(parsed.protocol) THEN UrlResult(FALSE, <<>>, "NotHttp")
    ELSE UrlResult(TRUE, text, "none")

\* variant: the URL is trimmed and checked, and returned as it was written
NormalizeSourceUrlAsWritten(sourceUrl) ==
    CheckedUrl(ParseUrl(Trim(sourceUrl)), Trim(sourceUrl))

NormalizeSourceUrl(sourceUrl) ==
    CheckedUrl(ParseUrl(Trim(sourceUrl)),
               IF ParseUrl(Trim(sourceUrl)).ok THEN Href(ParseUrl(Trim(sourceUrl))) ELSE <<>>)

\* urlsMatch, on two URLs normalizeSourceUrl accepts
UrlsMatch(left, right) == NormalizeSourceUrl(left).url = NormalizeSourceUrl(right).url

SourceConfigRecord(name, url, enabled, rules) ==
    [name |-> name, url |-> url, enabled |-> enabled, rules |-> rules]

\* compactSourceRules(...) ?? undefined
CompactOrUndef(rules) == Coalesce(CompactSourceRules(NormalizeSourceRules(rules)), Undef)

\* one row of parseConfig, for a row that passes its checks
ParseRow(row) ==
    SourceConfigRecord(Trim(row.name),
                       NormalizeSourceUrl(row.url).url,
                       IF row.enabled.t = "boolean" THEN row.enabled ELSE Undef,
                       IF IsNullish(row.rules) THEN Undef ELSE CompactOrUndef(row.rules))

\* readConfig: the rows of the file as parseConfig returns them
ReadConfig(file) == [i \in 1..Len(file) |-> ParseRow(file[i])]

\* config.sources.findIndex(urlsMatch), 0 for -1
FindSourceIndex(configSources, targetUrl) ==
    IF \E i \in 1..Len(configSources) : UrlsMatch(configSources[i].url, targetUrl)
    THEN CHOOSE i \in 1..Len(configSources) :
            /\ UrlsMatch(configSources[i].url, targetUrl)
            /\ \A j \in 1..(i - 1) : ~UrlsMatch(configSources[j].url, targetUrl)
    ELSE 0

\* the rules getRulesBySourceUrl returns for a normalized target URL
MatchedRules(configSources, index) ==
    IF index = 0 THEN Null
    ELSE IF configSources[index].rules = Undef THEN Null
    ELSE CompactSourceRules(NormalizeSourceRules(configSources[index].rules))

RulesBySourceUrl(configSources, targetUrl) ==
    MatchedRules(configSources, FindSourceIndex(configSources, targetUrl))

\* defaultNameForUrl
DefaultNameForUrl(sourceUrl) ==
    IF ParseUrl(sourceUrl).ok THEN Hostname(sourceUrl) ELSE <<"s","o","u","r","c","e">>

\* variant: the record is pushed whether or not the URL has one already
SavedSourcesAlwaysPushing(configSources, index, targetUrl, compactRules) ==
    Append(configSources,
           SourceConfigRecord(DefaultNameForUrl(targetUrl), targetUrl,
                              Bool(TRUE), compactRules))

\* config.sources after saveRulesForSourceUrl replaced or pushed the record
SavedSources(configSources, index, targetUrl, compactRules) ==
    IF index > 0
    THEN [configSources EXCEPT ![index] =
             SourceConfigRecord(configSources[index].name, targetUrl,
                                configSources[index].enabled, compactRules)]
    ELSE Append(configSources,
                SourceConfigRecord(DefaultNameForUrl(targetUrl), targetUrl,
                                   Bool(TRUE), compactRules))

SourcesAfterSave(configSources, targetUrl, rulesInput) ==
    SavedSources(configSources, FindSourceIndex(configSources, targetUrl), targetUrl,
                 CompactOrUndef(Coalesce(rulesInput, Undef)))

NoGet == [url |-> <<>>, rules |-> Undef]

SaveSettled(sourceUrl, rulesInput, target) ==
    IF ~target.ok
    THEN /\ storeError' = target.error
         /\ UNCHANGED <<configFile, saveLog>>
    ELSE /\ storeError' = "none"
         /\ configFile' = SourcesAfterSave(ReadConfig(configFile), target.url, rulesInput)
         /\ saveLog' = Append(saveLog, [url |-> sourceUrl, rules |-> rulesInput])

\* saveRulesForSourceUrl; an answer read earlier is dropped
SaveRulesForSourceUrl(sourceUrl, rulesInput) ==
    /\ Len(saveLog) < MaxSaves
    /\ SaveSettled(sourceUrl, rulesInput, NormalizeSourceUrl(sourceUrl))
    /\ lastGet' = NoGet
    /\ UNCHANGED besidesStore

GetSettled(sourceUrl, target) ==
    IF ~target.ok
    THEN /\ storeError' = target.error
         /\ lastGet' = NoGet
    ELSE /\ storeError' = "none"
         /\ lastGet' = [url |-> sourceUrl,
                        rules |-> RulesBySourceUrl(ReadConfig(configFile), target.url)]

\* getRulesBySourceUrl
GetRulesBySourceUrl(sourceUrl) ==
    /\ GetSettled(sourceUrl, NormalizeSourceUrl(sourceUrl))
    /\ UNCHANGED <<configFile, saveLog>>
    /\ UNCHANGED besidesStore

StoreUrls ==
    { SourceUrl,
      <<" ">> \o HttpPrefix \o <<"H">>,
      HttpsPrefix \o <<"h","/">>,
      FtpUrl }

\* rules the renderer saves: none, rules that normalize to nothing, and
\* rules with a term to trim and a count to round
SavedRuleInputs ==
    { Null,
      RulesObject(Arr(<<>>), Str(<<"x">>), Num(0)),
      RulesObject(Undef, Arr(<<Str(<<" ","d","U","P"," ">>)>>), Half(3)) }

\* feed-sources.json as an editor can leave it: no source, one source
\* written with an upper-case host and rules that are not compact, and two
\* rows of one URL
ConfigFiles ==
    { <<>>,
      <<SourceConfigRecord(<<" ","a">>, HttpPrefix \o <<"H">>, Undef,
                           RulesObject(Arr(<<>>), Undef, Half(5)))>>,
      <<SourceConfigRecord(<<"a">>, SourceUrl, Bool(FALSE), Null),
        SourceConfigRecord(<<"b">>, HttpPrefix \o <<"H","/">>, Undef,
                           RulesObject(Undef, Undef, Num(1)))>> }

\* the rule storage is not used
StoreUnused ==
    /\ configFile = <<>>
    /\ saveLog = <<>>
    /\ lastGet = NoGet
    /\ storeError = "none"

---------------------------------------------------------------------------
(* scraper: two calls of extractFeed in flight at once.  The locals of a   *)
(* call (url, html, the candidate list, the loop position) live in its own *)
(* record; the module-level feedExtractorLib is only read.                 *)

TaskIds == {1, 2}

IdleTask ==
    [pc |-> "idle", url |-> <<>>, page |-> NoPage, feedLinks |-> <<>>, candIdx |-> 0,
     heard |-> <<>>, outcome |-> Pending]

Heard(kind, value) == [kind |-> kind, value |-> value]

TaskDone(task, result) == [task EXCEPT !.pc = "done", !.outcome = result]

\* extractFeed from its first line to the await of fetchHtml
TaskEntered(task, url, error) ==
    IF error # "none" THEN TaskDone([task EXCEPT !.url = url], Failed(error))
    ELSE [task EXCEPT !.pc = "awaitHtml", !.url = url]

TaskStart(url) == TaskEntered(IdleTask, url, ValidateUrl(url))

\* extractHeuristically returned or threw
TaskHeuristicSettled(task, heuristic) ==
    IF heuristic.ok
    THEN TaskDone(task, Returned(BuildFeedResult(task.url, heuristic.feed, "heuristic", Undef)))
    ELSE TaskDone(task, Failed("NoArticlesExtracted"))

TaskFallBack(task, page) ==
    TaskHeuristicSettled(task, ExtractHeuristically(task.url, page))

\* tryAutoDetectFeeds up to its first await
TaskDiscovery(task, page, links, extractor) ==
    IF extractor = "none" \/ Len(links) = 0
    THEN TaskFallBack([task EXCEPT !.page = page, !.feedLinks = links], page)
    ELSE [task EXCEPT !.page = page, !.feedLinks = links, !.candIdx = 1,
                      !.pc = "awaitFeed"]

TaskHtmlSettled(task, response, error) ==
    IF error # "none" THEN TaskDone(task, Failed(error))
    ELSE TaskDiscovery(task, response.page,
                       DetectFeedLinks(response.page, task.url),
                       PickExtractor(extractorLib))

\* the call after fetchHtml settled
TaskAfterHtml(task, response) ==
    TaskHtmlSettled([task EXCEPT !.heard = Append(task.heard, Heard("html", response))],
                    response, FetchHtmlError(response))

\* the rest of the loop body once the candidate is probed
TaskProbed(task, page, probe) ==
    IF probe.found
    THEN TaskDone(task, Returned(BuildFeedResult(task.url, probe.feed,
                                                 "rss-auto-detect", Undef)))
    ELSE IF task.candIdx < Len(task.feedLinks)
    THEN [task EXCEPT !.candIdx = task.candIdx + 1]
    ELSE TaskFallBack(task, page)

\* the call after the extractor settled, reading the page held in html
TaskAfterFeed(task, page, answer) ==
    TaskProbed([task EXCEPT !.heard = Append(task.heard, Heard("feed", answer))],
               page, ProbeCandidate(answer, page, task.url))

\* the call whose page request settled last, 0 before the first
LastHtmlTask ==
    IF \E k \in 1..Len(pairSteps) : pairSteps[k].kind = "html"
    THEN pairSteps[CHOOSE k \in 1..Len(pairSteps) :
                      /\ pairSteps[k].kind = "html"
                      /\ \A later \in (k + 1)..Len(pairSteps) :
                            pairSteps[later].kind # "html"].id
    ELSE 0

\* variant: html is one module-level variable, a call reads the page that
\* arrived last
SeenPageShared(id) == tasks[LastHtmlTask].page

\* the page the continuation of a call reads: its own local html
SeenPage(id) == tasks[id].page

PairStep(id, kind) == [id |-> id, kind |-> kind]

PairCall(id, url) ==
    /\ tasks[id].pc = "idle"
    /\ tasks' = [tasks EXCEPT ![id] = TaskStart(url)]
    /\ pairSteps' = Append(pairSteps, PairStep(id, "call"))
    /\ UNCHANGED besidesPair

PairHtmlFetched(id, response) ==
    /\ tasks[id].pc = "awaitHtml"
    /\ tasks' = [tasks EXCEPT ![id] = TaskAfterHtml(tasks[id], response)]
    /\ pairSteps' = Append(pairSteps, PairStep(id, "html"))
    /\ UNCHANGED besidesPair

PairFeedFetched(id, answer) ==
    /\ tasks[id].pc = "awaitFeed"
    /\ tasks' = [tasks EXCEPT ![id] = TaskAfterFeed(tasks[id], SeenPage(id), answer)]
    /\ pairSteps' = Append(pairSteps, PairStep(id, "feed"))
    /\ UNCHANGED besidesPair

PairUrls == { SourceUrl, HttpsPrefix \o <<"H","/","b","/">>, FtpUrl }

\* a failed request, a page with articles and two advertised feeds, a page
\* with one advertised feed and nothing the heuristic keeps
PairResponses ==
    { [failed |-> TRUE, contentType |-> <<>>, isString |-> FALSE, page |-> NoPage],
      [failed |-> FALSE, contentType |-> HtmlType, isString |-> TRUE,
       page |-> Page(<<L_Rss(1), L_Rss(2)>>, PlainBody, Undef, <<>>, Undef)],
      [failed |-> FALSE, contentType |-> HtmlType, isString |-> TRUE,
       page |-> Page(<<L_Rss(1)>>, <<<<>>, <<>>>>, Str(<<"S","i","t","e">>), <<>>, Undef)] }

PairAnswers ==
    { Thrown, FeedDoc(Undef, Undef, Undef, Arr(<<E_One>>)) }

\* no call of the pair has started
PairUnused ==
    /\ tasks = [id \in TaskIds |-> IdleTask]
    /\ pairSteps = <<>>

---------------------------------------------------------------------------
(* scraper: parseExtractorEntry on one entry of a parsed feed *)

EntryTitles == { Undef, Null, Str(<<>>), Str(<<" ">>), Str(<<"T"," "," ","1">>) }
EntryLinks ==
    { Undef, Str(<<>>), Str(EntryUrl(1)), Str(FtpUrl), Str(<<"/","e","1">>) }

\* entries as the feed library can return them: fields absent, null, empty,
\* blank or filled, and links that are absolute, relative or not http(s)
EntryInputs ==
    { Null, Str(<<"x">>) }
    \cup { [EntryDefaults EXCEPT !.title = title, !.summary = summary,
                                 !.contentSnippet = contentSnippet,
                                 !.link = link, !.url = url, !.id = id] :
              title \in EntryTitles,
              summary \in { Undef, Str(<<"S","u","m">>) },
              contentSnippet \in { Undef, Str(<<"c">>) },
              link \in EntryLinks,
              url \in { Undef, Str(EntryUrl(2)) },
              id \in { Undef, Str(<<"i","d">>) } }

NotParsed == [t |-> "pending"]

\* one entry goes through parseExtractorEntry
EntryParsed ==
    /\ parsedEntry = NotParsed
    /\ parsedEntry' = ParseExtractorEntry(feedEntry)
    /\ UNCHANGED feedEntry
    /\ UNCHANGED besidesEntry

\* no entry is being parsed
EntryUnused ==
    /\ feedEntry = Null
    /\ parsedEntry = NotParsed

---------------------------------------------------------------------------
(* filterRules on the way into the configuration file: the rule set is     *)
(* normalized, then compacted, compactSourceRules(normalizeSourceRules(r)) *)

\* rule sets whose fields have the wrong type: a string where a list is
\* expected, a number where a flag is expected
MistypedRuleInputs ==
    { [r EXCEPT !.titleExcludes = Str(<<"C">>), !.publishedAtRequired = Num(1)] :
         r \in RuleInputs \ {Null, Undef} }

NormalizeInputs == RuleInputs \cup MistypedRuleInputs

NotNormalized == [t |-> "pending"]

NormalizeAndCompact ==
    /\ rulesCompact = NotNormalized
    /\ rulesNormalized' = NormalizeSourceRules(rawRules)
    /\ rulesCompact' = CompactSourceRules(NormalizeSourceRules(rawRules))
    /\ UNCHANGED <<rawRules, besidesNorm>>

\* no rule set is being normalized
NormUnused ==
    /\ rawRules = Undef
    /\ rulesNormalized = NotNormalized
    /\ rulesCompact = NotNormalized

---------------------------------------------------------------------------
(* save-source-rules: two requests in flight at once.  Each handler runs  *)
(* up to its next await in one step; the file is read when readConfig     *)
(* settles and written when writeConfig settles.                          *)

SaveCallIds == {1, 2}

IdleSave ==
    [pc |-> "idle", url |-> <<>>, rules |-> Undef, target |-> <<>>,
     config |-> <<>>, response |-> "none"]

SaveAnswered(call, response) == [call EXCEPT !.pc = "done", !.response = response]

\* saveRulesForSourceUrl up to the await of readConfig
SaveEntered(call, target) ==
    IF ~target.ok THEN SaveAnswered(call, target.error)
    ELSE [call EXCEPT !.pc = "awaitRead", !.target = target.url]

\* the save-source-rules handler up to its first await
SaveHandlerEntered(sourceUrl, rulesInput) ==
    IF Trim(sourceUrl) = <<>> \/ ~IsValidHttpUrl(Trim(sourceUrl))
    THEN SaveAnswered([IdleSave EXCEPT !.url = sourceUrl, !.rules = rulesInput],
                      "InvalidRuleUrl")
    ELSE SaveEntered([IdleSave EXCEPT !.url = sourceUrl, !.rules = rulesInput],
                     NormalizeSourceUrl(Trim(sourceUrl)))

\* the renderer invokes save-source-rules
SaveRequested(id, sourceUrl, rulesInput) ==
    /\ saveCalls[id].pc = "idle"
    /\ saveCalls' = [saveCalls EXCEPT ![id] = SaveHandlerEntered(sourceUrl, rulesInput)]
    /\ UNCHANGED <<sharedConfig, besidesRace>>

\* readConfig settles: the call goes on with the file of this moment, puts
\* its record into that copy and awaits writeConfig
ConfigReadBySave(id) ==
    /\ saveCalls[id].pc = "awaitRead"
    /\ saveCalls' = [saveCalls EXCEPT
          ![id] = [@ EXCEPT !.pc = "awaitWrite",
                            !.config = SourcesAfterSave(ReadConfig(sharedConfig),
                                                        saveCalls[id].target,
                                                        saveCalls[id].rules)]]
    /\ UNCHANGED <<sharedConfig, besidesRace>>

\* writeConfig settles: the copy of the call replaces the file
ConfigWrittenBySave(id) ==
    /\ saveCalls[id].pc = "awaitWrite"
    /\ sharedConfig' = saveCalls[id].config
    /\ saveCalls' = [saveCalls EXCEPT ![id] = SaveAnswered(@, "ok")]
    /\ UNCHANGED besidesRace

\* no save-source-rules request was made
RaceUnused ==
    /\ sharedConfig = <<>>
    /\ saveCalls = [id \in SaveCallIds |-> IdleSave]

---------------------------------------------------------------------------
(* renderer: the script's variables, the buttons it disables and the      *)
(* calls it awaits.  A handler runs up to its next await in one step and  *)
(* goes on when that call settles; several handlers can be waiting at     *)
(* once.  The texts it shows and the rule form are left out.              *)

\* user actions in one run of the harness
MaxUiEvents == 3

UiAnswers == {"success", "failure", "thrown"}

\* what the user can have typed into the URL field
UrlFieldTexts == { <<>>, SourceUrl, <<" ">> \o HttpsPrefix \o <<"h","/">>, FtpUrl }

\* the FeedResult the generate-feed handler answers for a URL
UiFeedResult(url) == [sourceUrl |-> url, rssXml |-> <<"x">> \o url]

NoGithub == [available |-> FALSE, tokenConfigured |-> FALSE]

\* what get-github-config answers: a failure, or a repository with or
\* without a stored token
GithubAnswers ==
    { [success |-> FALSE, tokenConfigured |-> FALSE],
      [success |-> TRUE, tokenConfigured |-> FALSE],
      [success |-> TRUE, tokenConfigured |-> TRUE] }

\* a handler waiting for a call to settle: event is the user action that
\* started the handler (0 for the load of the script), `at` names the call,
\* url is the URL the call was made for, request is its place in
\* generateLog, quiet is the argument of saveRulesForCurrentSource (FALSE
\* where there is none)
Waiting(event, at, url, request, quiet) ==
    [event |-> event, at |-> at, url |-> url, request |-> request, quiet |-> quiet]

\* the script before it is loaded
NoRenderer ==
    [latestResult |-> Null, latestPublishedUrl |-> <<>>, publishInProgress |-> FALSE,
     githubState |-> NoGithub, disabled |-> {}, status |-> "none", shown |-> Null,
     inFlight |-> {}, generateLog |-> <<>>, events |-> 0]

\* the script once its last line has run: the rule buttons are disabled and
\* refreshGithubConfig waits for get-github-config; the publish button is as
\* the page declares it
LoadedRenderer(publishDisabled) ==
    [NoRenderer EXCEPT
        !.disabled = {"saveRules", "regenerate"}
                     \cup (IF publishDisabled THEN {"publish"} ELSE {}),
        !.inFlight = {Waiting(0, "config", <<>>, 0, TRUE)}]

SetStatus(ui, type) == [ui EXCEPT !.status = type]

Disable(ui, buttons) == [ui EXCEPT !.disabled = @ \cup buttons]
Enable(ui, buttons) == [ui EXCEPT !.disabled = @ \ buttons]

AwaitCall(ui, waiting) == [ui EXCEPT !.inFlight = @ \cup {waiting}]
Resumed(ui, waiting) == [ui EXCEPT !.inFlight = @ \ {waiting}]

UserActed(ui) == [ui EXCEPT !.events = @ + 1]

\* validateUrl of the renderer: "none" for null
ValidateUrlInput(input) ==
    IF input = <<>> THEN "EmptyUrl"
    ELSE IF ~ParseUrl(input).ok THEN "InvalidUrl"
    ELSE IF ~IsHttpProtocol(ParseUrl(input).protocol) THEN "NotHttp"
    ELSE "none"

\* variant: a publish under way does not keep the button disabled
CanPublishDuringPublish(inProgress, github, latest) ==
    /\ github.available
    /\ github.tokenConfigured
    /\ latest # Null
    /\ latest.rssXml # <<>>

\* canPublish of updatePublishButtonState
CanPublish(inProgress, github, latest) ==
    /\ ~inProgress
    /\ github.available
    /\ github.tokenConfigured
    /\ latest # Null
    /\ latest.rssXml # <<>>

UpdatePublishButtonState(ui) ==
    IF CanPublish(ui.publishInProgress, ui.githubState, ui.latestResult)
    THEN Enable(ui, {"publish"})
    ELSE Disable(ui, {"publish"})

ClearPublishedInfo(ui) ==
    Disable([ui EXCEPT !.latestPublishedUrl = <<>>], {"copyPublishedUrl"})

\* generateFeedWithUrl up to the await of generateFeed
GenerateFeedWithUrl(ui, event, targetUrl) ==
    IF ValidateUrlInput(targetUrl) # "none" THEN SetStatus(ui, "error")
    ELSE AwaitCall(
            [SetStatus(Disable(ui, {"generate", "regenerate"}), "loading")
                EXCEPT !.generateLog = Append(@, [url |-> targetUrl, answer |-> "pending"])],
            Waiting(event, "feed", targetUrl, Len(ui.generateLog) + 1, FALSE))

\* the finally block of generateFeedWithUrl
GenerateFinally(ui) == Enable(ui, {"generate", "regenerate"})

\* generateFeed answered without success, or threw
GenerationFailed(ui) ==
    GenerateFinally(UpdatePublishButtonState(ClearPublishedInfo(SetStatus(ui, "error"))))

\* generateFeed answered success: the result is kept and shown, the rule
\* buttons are enabled and loadRulesForSource awaits getSourceRules
GenerationSucceeded(ui, waiting, feedResult) ==
    AwaitCall(
        Enable(ClearPublishedInfo([ui EXCEPT !.latestResult = feedResult,
                                             !.shown = feedResult]),
               {"saveRules", "regenerate"}),
        Waiting(waiting.event, "rules", feedResult.sourceUrl, waiting.request, FALSE))

Answered(ui, waiting, answer) ==
    [ui EXCEPT !.generateLog[waiting.request].answer = answer]

GenerateFeedAnswered(ui, waiting, answer) ==
    IF answer = "success"
    THEN GenerationSucceeded(Answered(ui, waiting, answer), waiting,
                             UiFeedResult(waiting.url))
    ELSE GenerationFailed(Answered(ui, waiting, answer))

\* generateFeedWithUrl after loadRulesForSource
GenerationCompleted(ui) ==
    GenerateFinally(UpdatePublishButtonState(SetStatus(ui, "success")))

\* saveRulesForCurrentSource up to the await of saveSourceRules
SaveRulesForCurrentSource(ui, quiet) ==
    IF ui.latestResult = Null THEN SetStatus(ui, "error")
    ELSE AwaitCall(
            IF quiet THEN Disable(ui, {"saveRules"})
            ELSE SetStatus(Disable(ui, {"saveRules"}), "loading"),
            Waiting(ui.events, "save", ui.latestResult.sourceUrl, 0, quiet))

\* saveSourceRules settled; on success loadRulesForSource awaits
\* getSourceRules for the source of the latest result
SaveRulesAnswered(ui, waiting, answer) ==
    IF answer = "success"
    THEN AwaitCall(ui, Waiting(waiting.event, "rulesAfterSave",
                               ui.latestResult.sourceUrl, 0, waiting.quiet))
    ELSE Enable(SetStatus(ui, "error"), {"saveRules"})

\* saveRulesForCurrentSource returns true; onRegenerateWithRulesClick goes
\* on to generateFeedWithUrl with the source of the latest result
RulesReloaded(ui, waiting) ==
    IF waiting.quiet
    THEN GenerateFeedWithUrl(Enable(ui, {"saveRules"}), waiting.event,
                             ui.latestResult.sourceUrl)
    ELSE Enable(SetStatus(ui, "success"), {"saveRules"})

\* onPublishClick up to the await of publishFeed
OnPublishClick(ui) ==
    IF ui.latestResult = Null THEN SetStatus(ui, "error")
    ELSE IF ui.latestResult.rssXml = <<>> THEN SetStatus(ui, "error")
    ELSE IF ~ui.githubState.available THEN SetStatus(ui, "error")
    ELSE IF ~ui.githubState.tokenConfigured THEN SetStatus(ui, "error")
    ELSE AwaitCall(
            SetStatus(UpdatePublishButtonState([ui EXCEPT !.publishInProgress = TRUE]),
                      "loading"),
            Waiting(ui.events, "publish", ui.latestResult.sourceUrl, 0, FALSE))

\* the finally block of onPublishClick
PublishFinally(ui) == UpdatePublishButtonState([ui EXCEPT !.publishInProgress = FALSE])

PublishAnswered(ui, waiting, answer) ==
    IF answer = "success"
    THEN PublishFinally(
            SetStatus(Enable([ui EXCEPT !.latestPublishedUrl = waiting.url],
                             {"copyPublishedUrl"}),
                      "success"))
    ELSE PublishFinally(SetStatus(ui, "error"))

\* onSaveTokenClick up to the await of setGithubToken
OnSaveTokenClick(ui, token) ==
    IF Trim(token) = <<>> THEN SetStatus(ui, "error")
    ELSE AwaitCall(SetStatus(Disable(ui, {"saveToken"}), "loading"),
                   Waiting(ui.events, "token", <<>>, 0, FALSE))

\* setGithubToken settled; on success refreshGithubConfig awaits
\* get-github-config
TokenAnswered(ui, waiting, answer) ==
    IF answer = "success"
    THEN AwaitCall(ui, Waiting(waiting.event, "config", <<>>, 0, FALSE))
    ELSE Enable(SetStatus(ui, "error"), {"saveToken"})

\* refreshGithubConfig after get-github-config, with renderGithubConfig
GithubConfigRefreshed(ui, answer) ==
    UpdatePublishButtonState(
        [ui EXCEPT !.githubState =
            IF answer.success
            THEN [available |-> TRUE, tokenConfigured |-> answer.tokenConfigured]
            ELSE NoGithub])

\* the refresh at load ends there; the one of onSaveTokenClick reports
GithubConfigAnswered(ui, atLoad, answer) ==
    IF atLoad THEN GithubConfigRefreshed(ui, answer)
    ELSE Enable(SetStatus(GithubConfigRefreshed(ui, answer), "success"), {"saveToken"})

WaitingAt(at) == {w \in renderer.inFlight : w.at = at}

CanAct == renderer.events < MaxUiEvents

\* a click on the generate button; a disabled button gets no click
GenerateClicked(text) ==
    /\ CanAct
    /\ "generate" \notin renderer.disabled
    /\ renderer' = GenerateFeedWithUrl(UserActed(renderer), renderer.events + 1, Trim(text))
    /\ UNCHANGED besidesUi

\* Enter in the URL field: the keydown listener calls onGenerateClick
EnterPressed(text) ==
    /\ CanAct
    /\ renderer' = GenerateFeedWithUrl(UserActed(renderer), renderer.events + 1, Trim(text))
    /\ UNCHANGED besidesUi

GenerateFeedSettled(waiting, answer) ==
    /\ waiting \in WaitingAt("feed")
    /\ renderer' = GenerateFeedAnswered(Resumed(renderer, waiting), waiting, answer)
    /\ UNCHANGED besidesUi

\* getSourceRules settled inside generateFeedWithUrl; every answer of it
\* only fills or clears the rule form
SourceRulesSettled(waiting) ==
    /\ waiting \in WaitingAt("rules")
    /\ renderer' = GenerationCompleted(Resumed(renderer, waiting))
    /\ UNCHANGED besidesUi

SaveRulesClicked ==
    /\ CanAct
    /\ "saveRules" \notin renderer.disabled
    /\ renderer' = SaveRulesForCurrentSource(UserActed(renderer), FALSE)
    /\ UNCHANGED besidesUi

\* onRegenerateWithRulesClick: its own test of latestResult is the one
\* saveRulesForCurrentSource repeats
RegenerateClicked ==
    /\ CanAct
    /\ "regenerate" \notin renderer.disabled
    /\ renderer' = SaveRulesForCurrentSource(UserActed(renderer), TRUE)
    /\ UNCHANGED besidesUi

SaveRulesSettled(waiting, answer) ==
    /\ waiting \in WaitingAt("save")
    /\ renderer' = SaveRulesAnswered(Resumed(renderer, waiting), waiting, answer)
    /\ UNCHANGED besidesUi

RulesReloadSettled(waiting) ==
    /\ waiting \in WaitingAt("rulesAfterSave")
    /\ renderer' = RulesReloaded(Resumed(renderer, waiting), waiting)
    /\ UNCHANGED besidesUi

PublishClicked ==
    /\ CanAct
    /\ "publish" \notin renderer.disabled
    /\ renderer' = OnPublishClick(UserActed(renderer))
    /\ UNCHANGED besidesUi

PublishFeedSettled(waiting, answer) ==
    /\ waiting \in WaitingAt("publish")
    /\ renderer' = PublishAnswered(Resumed(renderer, waiting), waiting, answer)
    /\ UNCHANGED besidesUi

SaveTokenClicked(token) ==
    /\ CanAct
    /\ "saveToken" \notin renderer.disabled
    /\ renderer' = OnSaveTokenClick(UserActed(renderer), token)
    /\ UNCHANGED besidesUi

TokenSettled(waiting, answer) ==
    /\ waiting \in WaitingAt("token")
    /\ renderer' = TokenAnswered(Resumed(renderer, waiting), waiting, answer)
    /\ UNCHANGED besidesUi

GithubConfigSettled(waiting, answer) ==
    /\ waiting \in WaitingAt("config")
    /\ renderer' = GithubConfigAnswered(Resumed(renderer, waiting), waiting.quiet, answer)
    /\ UNCHANGED besidesUi

\* the renderer is not loaded
UiUnused == renderer = NoRenderer

---------------------------------------------------------------------------
(* The specifications *)

\* no run of the batch updater has started
IdleBatch ==
    /\ batchPc = "start"
    /\ enabledSources = <<>>
    /\ sourceIdx = 0
    /\ desiredPaths = <<>>
    /\ successfulPaths = <<>>
    /\ failedSources = <<>>
    /\ extractLog = <<>>
    /\ meta = NoMeta
    /\ runOutcome = "pending"

BatchUnused ==
    /\ IdleBatch
    /\ rawConfig = Undef
    /\ sources = <<>>
    /\ outputFiles = {}

RulesUnused ==
    /\ ruleArticles = <<>>
    /\ ruleInput = Undef
    /\ ruleResult = NoResult

\* no call is in progress; the feed library exports extract
CallUnused ==
    /\ IdleCall
    /\ extractorLib = [extract |-> Function, extractFromUrl |-> Undef, default |-> Undef]

\* the process after module load, before any call
Init ==
    /\ RulesUnused
    /\ IdleCall
    /\ extractorLib \in ExtractorLibs
    /\ BatchUnused
    /\ PublishUnused
    /\ StoreUnused
    /\ PairUnused
    /\ EntryUnused
    /\ NormUnused
    /\ RaceUnused
    /\ UiUnused

Next ==
    \/ \E url \in DirectUrls, rules \in RawCallRules : DirectCall(url, rules)
    \/ \E url \in IpcUrls : IpcGenerateFeed(url)
    \/ \E answer \in StorageAnswers : RulesLoaded(answer)
    \/ \E response \in HtmlResponses : HtmlFetched(response)
    \/ \E answer \in ExtractorAnswers : FeedFetched(answer)

Spec == Init /\ [][Next]_vars

\* the rule engine on its own: every input of the harness, then the call
InitRules ==
    /\ ruleArticles \in RuleArticleLists
    /\ ruleInput \in RuleInputs
    /\ ruleResult = NoResult
    /\ CallUnused
    /\ BatchUnused
    /\ PublishUnused
    /\ StoreUnused
    /\ PairUnused
    /\ EntryUnused
    /\ NormUnused
    /\ RaceUnused
    /\ UiUnused

NextRules == ApplyRules

SpecRules == InitRules /\ [][NextRules]_vars

\* one run of the batch updater over every configuration of the harness
InitBatch ==
    /\ RulesUnused
    /\ CallUnused
    /\ IdleBatch
    /\ sources \in SourceLists
    /\ rawConfig = ConfigFileOf(sources)
    /\ outputFiles = {StaleFile}
    /\ PublishUnused
    /\ StoreUnused
    /\ PairUnused
    /\ EntryUnused
    /\ NormUnused
    /\ RaceUnused
    /\ UiUnused

NextBatch ==
    \/ RunStarted
    \/ \E extraction \in ExtractOutcomes, written \in BOOLEAN :
          SourceProcessed(extraction, written)
    \/ SummaryWritten

SpecBatch == InitBatch /\ [][NextBatch]_vars

\* one run of the batch updater from the reading of the configuration file
InitConfig ==
    /\ RulesUnused
    /\ CallUnused
    /\ rawConfig \in RawConfigs
    /\ batchPc = "read"
    /\ sources = <<>>
    /\ enabledSources = <<>>
    /\ sourceIdx = 0
    /\ desiredPaths = <<>>
    /\ successfulPaths = <<>>
    /\ failedSources = <<>>
    /\ extractLog = <<>>
    /\ outputFiles = {StaleFile}
    /\ meta = NoMeta
    /\ runOutcome = "pending"
    /\ PublishUnused
    /\ StoreUnused
    /\ PairUnused
    /\ EntryUnused
    /\ NormUnused
    /\ RaceUnused
    /\ UiUnused

NextConfig ==
    \/ ConfigRead
    \/ NextBatch

SpecConfig == InitConfig /\ [][NextConfig]_vars

\* publishes of the renderer, one after the other
InitPublish ==
    /\ RulesUnused
    /\ CallUnused
    /\ BatchUnused
    /\ PublishUnused
    /\ StoreUnused
    /\ PairUnused
    /\ EntryUnused
    /\ NormUnused
    /\ RaceUnused
    /\ UiUnused

NextPublish == \E input \in PublishInputs : PublishFeedToGitHubPages(input)

SpecPublish == InitPublish /\ [][NextPublish]_vars

\* saves and reads of the rule storage, one after the other
InitStore ==
    /\ RulesUnused
    /\ CallUnused
    /\ BatchUnused
    /\ PublishUnused
    /\ configFile \in ConfigFiles
    /\ saveLog = <<>>
    /\ lastGet = NoGet
    /\ storeError = "none"
    /\ PairUnused
    /\ EntryUnused
    /\ NormUnused
    /\ RaceUnused
    /\ UiUnused

NextStore ==
    \/ \E sourceUrl \in StoreUrls, rulesInput \in SavedRuleInputs :
          SaveRulesForSourceUrl(sourceUrl, rulesInput)
    \/ \E sourceUrl \in StoreUrls : GetRulesBySourceUrl(sourceUrl)

SpecStore == InitStore /\ [][NextStore]_vars

\* two calls of extractFeed, their awaits settling in any order
InitPair ==
    /\ RulesUnused
    /\ CallUnused
    /\ BatchUnused
    /\ PublishUnused
    /\ StoreUnused
    /\ PairUnused
    /\ EntryUnused
    /\ NormUnused
    /\ RaceUnused
    /\ UiUnused

NextPair ==
    \/ \E id \in TaskIds, url \in PairUrls : PairCall(id, url)
    \/ \E id \in TaskIds, response \in PairResponses : PairHtmlFetched(id, response)
    \/ \E id \in TaskIds, answer \in PairAnswers : PairFeedFetched(id, answer)

SpecPair == InitPair /\ [][NextPair]_vars

\* parseExtractorEntry on every entry of the harness
InitEntry ==
    /\ RulesUnused
    /\ CallUnused
    /\ BatchUnused
    /\ PublishUnused
    /\ StoreUnused
    /\ PairUnused
    /\ feedEntry \in EntryInputs
    /\ parsedEntry = NotParsed
    /\ NormUnused
    /\ RaceUnused
    /\ UiUnused

NextEntry == EntryParsed

SpecEntry == InitEntry /\ [][NextEntry]_vars

\* normalizeSourceRules and compactSourceRules on every rule set of the harness
InitNormalize ==
    /\ RulesUnused
    /\ CallUnused
    /\ BatchUnused
    /\ PublishUnused
    /\ StoreUnused
    /\ PairUnused
    /\ EntryUnused
    /\ rawRules \in NormalizeInputs
    /\ rulesNormalized = NotNormalized
    /\ rulesCompact = NotNormalized
    /\ RaceUnused
    /\ UiUnused

NextNormalize == NormalizeAndCompact

SpecNormalize == InitNormalize /\ [][NextNormalize]_vars

\* two save-source-rules requests, their awaits settling in any order
InitRace ==
    /\ RulesUnused
    /\ CallUnused
    /\ BatchUnused
    /\ PublishUnused
    /\ StoreUnused
    /\ PairUnused
    /\ EntryUnused
    /\ NormUnused
    /\ sharedConfig \in ConfigFiles
    /\ saveCalls = [id \in SaveCallIds |-> IdleSave]
    /\ UiUnused

NextRace ==
    \/ \E id \in SaveCallIds, sourceUrl \in StoreUrls, rulesInput \in SavedRuleInputs :
          SaveRequested(id, sourceUrl, rulesInput)
    \/ \E id \in SaveCallIds : ConfigReadBySave(id)
    \/ \E id \in SaveCallIds : ConfigWrittenBySave(id)

SpecRace == InitRace /\ [][NextRace]_vars

\* the renderer after load: user actions and settling calls in any order
InitRenderer ==
    /\ RulesUnused
    /\ CallUnused
    /\ BatchUnused
    /\ PublishUnused
    /\ StoreUnused
    /\ PairUnused
    /\ EntryUnused
    /\ NormUnused
    /\ RaceUnused
    /\ renderer \in {LoadedRenderer(publishDisabled) : publishDisabled \in BOOLEAN}

NextRenderer ==
    \/ \E text \in UrlFieldTexts : GenerateClicked(text)
    \/ \E text \in UrlFieldTexts : EnterPressed(text)
    \/ \E waiting \in renderer.inFlight, answer \in UiAnswers :
          GenerateFeedSettled(waiting, answer)
    \/ \E waiting \in renderer.inFlight : SourceRulesSettled(waiting)
    \/ SaveRulesClicked
    \/ RegenerateClicked
    \/ \E waiting \in renderer.inFlight, answer \in UiAnswers :
          SaveRulesSettled(waiting, answer)
    \/ \E waiting \in renderer.inFlight : RulesReloadSettled(waiting)
    \/ PublishClicked
    \/ \E waiting \in renderer.inFlight, answer \in UiAnswers :
          PublishFeedSettled(waiting, answer)
    \/ \E token \in {<<" ">>, <<"t">>} : SaveTokenClicked(token)
    \/ \E waiting \in renderer.inFlight, answer \in UiAnswers :
          TokenSettled(waiting, answer)
    \/ \E waiting \in renderer.inFlight, answer \in GithubAnswers :
          GithubConfigSettled(waiting, answer)

SpecRenderer == InitRenderer /\ [][NextRenderer]_vars

---------------------------------------------------------------------------
(* What the properties are stated with.  The rule engine is characterized  *)
(* from the raw rule set and the positions of the input list, without      *)
(* normalizeSourceRules, matchesArticle or slice.                          *)

NonBlankString(item) ==
    item.t = "string" /\ \E i \in 1..Len(item.v) : item.v[i] # " "

\* the terms a raw list contributes: its non-blank strings, trimmed
TermsOf(value) ==
    IF value.t # "array" THEN {}
    ELSE { Trim(value.v[i].v) : i \in { k \in 1..Len(value.v) : NonBlankString(value.v[k]) } }

RawField(raw, field) == IF raw.t \in {"null", "undefined"} THEN Undef ELSE raw[field]

\* the number of leading articles a raw skipTopCount asks to skip
SkipOf(value) ==
    IF value.t = "number" /\ value.twice >= 2 THEN value.twice \div 2 ELSE 0

EffectiveSkip(raw) == SkipOf(RawField(raw, "skipTopCount"))

FlagSet(raw, field) == RawField(raw, field) = Bool(TRUE)

ContainsNoCase(text, term) ==
    \E i \in 0..(Len(text) - Len(term)) :
       \A k \in 1..Len(term) : LowerChar(text[i + k]) = LowerChar(term[k])

HasText(value) == value.t = "string" /\ value.v # <<>>

Satisfies(article, raw) ==
    /\ \A term \in TermsOf(RawField(raw, "titleIncludes")) :
          ContainsNoCase(article.title, term)
    /\ \A term \in TermsOf(RawField(raw, "titleExcludes")) :
          ~ContainsNoCase(article.title, term)
    /\ \A term \in TermsOf(RawField(raw, "urlIncludes")) :
          ContainsNoCase(article.url, term)
    /\ \A term \in TermsOf(RawField(raw, "urlExcludes")) :
          ~ContainsNoCase(article.url, term)
    /\ FlagSet(raw, "descriptionRequired") => HasText(article.description)
    /\ FlagSet(raw, "publishedAtRequired") => HasText(article.publishedAt)

NoTermsOrFlags(raw) ==
    /\ TermsOf(RawField(raw, "titleIncludes")) = {}
    /\ TermsOf(RawField(raw, "titleExcludes")) = {}
    /\ TermsOf(RawField(raw, "urlIncludes")) = {}
    /\ TermsOf(RawField(raw, "urlExcludes")) = {}
    /\ ~FlagSet(raw, "descriptionRequired")
    /\ ~FlagSet(raw, "publishedAtRequired")

NoActiveConstraint(raw) == NoTermsOrFlags(raw) /\ EffectiveSkip(raw) = 0

\* positions (from 1) behind the leading skip whose article passes
KeptPositions(articles, raw) ==
    { i \in (Min(EffectiveSkip(raw), Len(articles)) + 1)..Len(articles) :
         Satisfies(articles[i], raw) }

DroppedPositions(articles, raw) ==
    { i \in (Min(EffectiveSkip(raw), Len(articles)) + 1)..Len(articles) :
         ~Satisfies(articles[i], raw) }

\* the k-th smallest element of a set of numbers
NthOf(S, k) == CHOOSE i \in S : Cardinality({ j \in S : j < i }) = k - 1

ArticlesAt(articles, positions) ==
    [k \in 1..Cardinality(positions) |-> articles[NthOf(positions, k)]]

ExpectedKept(articles, raw) == ArticlesAt(articles, KeptPositions(articles, raw))

\* the feed the returned result was assembled from
SourceFeed ==
    IF outcome.result.method = "rss-auto-detect" THEN autoDetected.feed
    ELSE heuristicFeed.feed

UrlsOf(list) == { list[i].url : i \in 1..Len(list) }

HasRepeatedUrl(list) == \E i, j \in 1..Len(list) : i < j /\ list[i].url = list[j].url

\* the candidates of the heuristic in extraction order: those of Strategy A,
\* then those of Strategy B when Strategy A found fewer than two urls
HeuristicCandidates ==
    IF Cardinality(UrlsOf(ContainerCandidates(html.containers, reqUrl, <<>>))) >= 2
    THEN ContainerCandidates(html.containers, reqUrl, <<>>)
    ELSE ContainerCandidates(html.containers, reqUrl, <<>>)
         \o AnchorCandidates(html.anchors, reqUrl, <<>>)

\* the candidates of the returned result in extraction order
ExtractionCandidates ==
    IF outcome.result.method = "rss-auto-detect"
    THEN SelectSeq(ParsedEntries(RawEntries(lastAnswer)), LAMBDA entry : entry # Null)
    ELSE HeuristicCandidates

IsFirstOccurrence(article, candidates) ==
    \E k \in 1..Len(candidates) :
       /\ candidates[k] = article
       /\ \A j \in 1..(k - 1) : candidates[j].url # article.url

CappedDistinctFirst(articles, candidates) ==
    /\ Len(articles) <= MAX_ARTICLES
    /\ \A i, j \in 1..Len(articles) : i # j => articles[i].url # articles[j].url
    /\ \A i \in 1..Len(articles) : IsFirstOccurrence(articles[i], candidates)

\* a well-formed http(s) URL: the scheme, "//" and a host
WellFormedHttpUrl(text) ==
    \E prefix \in {HttpPrefix, HttpsPrefix} :
       /\ Len(text) > Len(prefix)
       /\ ToLowerCase(SubSeq(text, 1, Len(prefix))) = prefix
       /\ text[Len(prefix) + 1] \notin {"/", " ", "?"}

NoCandidates ==
    /\ ContainerCandidates(html.containers, reqUrl, <<>>) = <<>>
    /\ AnchorCandidates(html.anchors, reqUrl, <<>>) = <<>>

ItemsMatch(items, articles) ==
    /\ Len(items) = Len(articles)
    /\ \A i \in 1..Len(items) :
          items[i].link = articles[i].url /\ items[i].title = articles[i].title

\* an answer of the extractor that parses to at least one normalized entry
GoodAnswer(answer) ==
    /\ answer.t = "object"
    /\ \E i \in 1..Len(RawEntries(answer)) :
          ParseExtractorEntry(RawEntries(answer)[i]) # Null

FeedFetches == SelectSeq(fetchLog, LAMBDA fetch : fetch.kind = "feed")

\* what each <link> of the page resolves to, in the order of the page
ResolvedLinks(page, base) ==
    [k \in 1..Len(page.links) |-> ToAbsoluteUrl(base, page.links[k].href)]

\* first position of x in list, 0 if none
FirstIndexOf(list, x) ==
    IF \E k \in 1..Len(list) : list[k] = x
    THEN CHOOSE k \in 1..Len(list) : list[k] = x /\ \A j \in 1..(k - 1) : list[j] # x
    ELSE 0

\* links are urls of the page, ordered as their first <link> in the page
InDocumentOrder(links, resolved) ==
    /\ \A i \in 1..Len(links) : FirstIndexOf(resolved, Str(links[i])) > 0
    /\ \A i \in 1..(Len(links) - 1) :
          FirstIndexOf(resolved, Str(links[i])) < FirstIndexOf(resolved, Str(links[i + 1]))

---------------------------------------------------------------------------
(* Properties of extractFeed and of the generate-feed handler *)

\* C1: every result extractFeed returns has at most MAX_ARTICLES (50)
\* articles with pairwise distinct urls, and each of them is the first
\* candidate with its url in extraction order; the same holds for the feed
\* it was assembled from, on the discovery path and on the heuristic path
\* (Strategy A followed by Strategy B).
C1_CappedDistinctFirstWins ==
    outcome.status = "ok" =>
       /\ CappedDistinctFirst(outcome.result.articles, ExtractionCandidates)
       /\ CappedDistinctFirst(SourceFeed.articles, ExtractionCandidates)

\* a result of exactly MAX_ARTICLES articles out of more candidates, two of
\* which carry the same url
C1_Witness ==
    /\ outcome.status = "ok"
    /\ Len(outcome.result.articles) = MAX_ARTICLES
    /\ Len(ExtractionCandidates) > MAX_ARTICLES
    /\ HasRepeatedUrl(ExtractionCandidates)

\* C2: the heuristic extractor runs only after feed discovery returned
\* none, never when discovery returned a feed; the method of a result is
\* "rss-auto-detect" exactly when its articles come from the discovered
\* feed and "heuristic" exactly when they come from the heuristic feed.
C2_HeuristicOnlyAfterDiscoveryNone ==
    /\ heuristicRuns > 0 => autoDetected.state = "null"
    /\ autoDetected.state = "feed" => heuristicRuns = 0 /\ heuristicFeed = NotRun
    /\ outcome.status = "ok" =>
          /\ outcome.result.method \in {"rss-auto-detect", "heuristic"}
          /\ outcome.result.method = "rss-auto-detect" <=> autoDetected.state = "feed"
          /\ outcome.result.method = "heuristic" <=> heuristicFeed.state = "feed"
          /\ autoDetected.state = "feed" =>
                /\ outcome.result.originalArticleCount = Len(autoDetected.feed.articles)
                /\ \A i \in 1..Len(outcome.result.articles) :
                      \E k \in 1..Len(autoDetected.feed.articles) :
                         autoDetected.feed.articles[k] = outcome.result.articles[i]
          /\ heuristicFeed.state = "feed" =>
                /\ outcome.result.originalArticleCount = Len(heuristicFeed.feed.articles)
                /\ \A i \in 1..Len(outcome.result.articles) :
                      \E k \in 1..Len(heuristicFeed.feed.articles) :
                         heuristicFeed.feed.articles[k] = outcome.result.articles[i]

\* candidates were probed, discovery returned none, the heuristic produced
\* the result
C2_Witness ==
    /\ outcome.status = "ok"
    /\ outcome.result.method = "heuristic"
    /\ candIdx >= 1
    /\ autoDetected.state = "null"
    /\ heuristicRuns = 1

\* C3: a url that is not a well-formed http(s) URL makes extractFeed fail
\* with the invalid-URL error without any fetch, of the page or of a feed
\* candidate; the generate-feed handler answers such a url with a failure
\* without reading the rule storage and without calling extractFeed.
C3_InvalidUrlFailsWithoutFetch ==
    /\ (caller = "direct" /\ ~WellFormedHttpUrl(Trim(reqUrl))) =>
          /\ outcome = Failed("InvalidUrl")
          /\ fetchLog = <<>>
          /\ pc = "done"
    /\ (caller = "ipc" /\ ~WellFormedHttpUrl(Trim(AttrText(ipcUrl)))) =>
          /\ ipcResponse.state = "failure"
          /\ storageReads = 0
          /\ extractCalls = 0
          /\ fetchLog = <<>>
          /\ pc = "done"
    /\ outcome.error = "InvalidUrl" => fetchLog = <<>>

\* extractFeed was called with an ftp url and has failed
C3_Witness ==
    /\ caller = "direct"
    /\ reqUrl = FtpUrl
    /\ extractCalls = 1
    /\ outcome.error = "InvalidUrl"

\* C4: extractHeuristically throws exactly when Strategy A and Strategy B
\* yield no article; extractFeed fails with that error exactly when
\* discovery returned none and the heuristic found no article; so every
\* result returned was assembled from a non-empty list of articles.
C4_ExtractionErrorExactlyWhenNothingFound ==
    /\ heuristicRuns > 0 => (heuristicFeed.state = "null" <=> NoCandidates)
    /\ heuristicRuns > 0 => (heuristicFeed.state = "feed" <=> ~NoCandidates)
    /\ outcome.error = "NoArticlesExtracted" <=>
          (autoDetected.state = "null" /\ heuristicRuns > 0 /\ NoCandidates)
    /\ outcome.status = "ok" =>
          /\ outcome.result.originalArticleCount > 0
          /\ Len(SourceFeed.articles) > 0

\* candidates were probed, none gave a feed, the page gave no article
C4_Witness ==
    /\ outcome.error = "NoArticlesExtracted"
    /\ candIdx >= 1
    /\ heuristicRuns = 1

---------------------------------------------------------------------------
(* Properties of applySourceRules *)

\* C6: a rule set without active constraint (null, undefined, no usable
\* term, flags other than true, skipTopCount that is no number of at least
\* one) returns the input list itself with the three counts at zero.
C6_InactiveRulesAreIdentity ==
    (ruleResult # NoResult /\ NoActiveConstraint(ruleInput)) =>
       /\ ruleResult.articles = ruleArticles
       /\ ruleResult.skippedTopCount = 0
       /\ ruleResult.ruleFilteredCount = 0
       /\ ruleResult.filteredOutCount = 0

\* a full list went through a rule object whose flag is the string "true"
\* and whose skipTopCount is one half
C6_Witness ==
    /\ ruleResult # NoResult
    /\ ruleInput.t = "object"
    /\ NoActiveConstraint(ruleInput)
    /\ ruleInput.descriptionRequired.t = "string"
    /\ ruleInput.skipTopCount = Half(1)
    /\ Len(ruleArticles) = MaxRuleList

\* C7: with an active rule set the output is exactly the articles behind
\* the leading skipTopCount positions that pass every predicate (title and
\* url terms compared case-insensitively, description and publish date
\* present when required), in input order; a skipped leading article is
\* not kept even when it passes every predicate.
C7_SkipThenPredicates ==
    (ruleResult # NoResult /\ ~NoActiveConstraint(ruleInput)) =>
       /\ ruleResult.articles = ExpectedKept(ruleArticles, ruleInput)
       /\ Len(ruleResult.articles) <=
             Len(ruleArticles) - Min(EffectiveSkip(ruleInput), Len(ruleArticles))

\* the skipped first article passes every predicate, a later article fails
\* one, and another later article is kept
C7_Witness ==
    /\ ruleResult # NoResult
    /\ EffectiveSkip(ruleInput) = 1
    /\ Len(ruleArticles) = MaxRuleList
    /\ Satisfies(ruleArticles[1], ruleInput)
    /\ DroppedPositions(ruleArticles, ruleInput) # {}
    /\ Len(ruleResult.articles) >= 1
    /\ \A i \in 1..Len(ruleResult.articles) : ruleResult.articles[i] # ruleArticles[1]

\* C8: skippedTopCount is the smaller of skipTopCount and the length of the
\* input, ruleFilteredCount the number of articles behind the skip that
\* fail a predicate, filteredOutCount the sum of the two.
C8_CountsAddUp ==
    ruleResult # NoResult =>
       /\ ruleResult.skippedTopCount = Min(EffectiveSkip(ruleInput), Len(ruleArticles))
       /\ ruleResult.ruleFilteredCount =
             Cardinality(DroppedPositions(ruleArticles, ruleInput))
       /\ ruleResult.filteredOutCount =
             ruleResult.skippedTopCount + ruleResult.ruleFilteredCount

\* articles were skipped, others dropped by a predicate, others kept
C8_Witness ==
    /\ ruleResult # NoResult
    /\ ruleResult.skippedTopCount >= 1
    /\ ruleResult.ruleFilteredCount >= 1
    /\ Len(ruleResult.articles) >= 1
    /\ ruleResult.filteredOutCount >= 2

\* C9: with skipTopCount = N as the only constraint, a list of length L
\* yields its last L - N articles in order and ruleFilteredCount = 0 for
\* 0 <= N <= L, and the empty list with skippedTopCount = L for N > L.
C9_SkipOnly ==
    \A n \in 0..(MaxRuleList + 1) :
       (/\ ruleResult # NoResult
        /\ ruleInput.t = "object"
        /\ NoTermsOrFlags(ruleInput)
        /\ ruleInput.skipTopCount = Num(n)) =>
          IF n <= Len(ruleArticles)
          THEN /\ Len(ruleResult.articles) = Len(ruleArticles) - n
               /\ ruleResult.articles = SubSeq(ruleArticles, n + 1, Len(ruleArticles))
               /\ ruleResult.ruleFilteredCount = 0
          ELSE /\ ruleResult.articles = <<>>
               /\ ruleResult.skippedTopCount = Len(ruleArticles)

\* a skip larger than the longest list
C9_Witness ==
    /\ ruleResult # NoResult
    /\ ruleInput.t = "object"
    /\ NoTermsOrFlags(ruleInput)
    /\ ruleInput.skipTopCount = Num(MaxRuleList + 1)
    /\ Len(ruleArticles) = MaxRuleList
    /\ ruleResult.skippedTopCount = MaxRuleList

---------------------------------------------------------------------------
(* Properties of tryAutoDetectFeeds *)

\* C10: the candidates are requested one after the other in the order of
\* the page; the feed returned is built from the first answer that parses
\* to at least one normalized entry and no later candidate is requested;
\* an answer that throws, is no object or has no usable entry only moves
\* the loop on (next candidate, or none and the heuristic) and never ends
\* the call with an error of its own.
C10_SequentialFirstSuccessWins ==
    /\ Len(FeedFetches) = candIdx
    /\ candIdx <= Len(feedLinks)
    /\ \A i \in 1..candIdx : FeedFetches[i].url = feedLinks[i]
    /\ InDocumentOrder(feedLinks, ResolvedLinks(html, reqUrl))
    /\ pc = "awaitFeed" => autoDetected = NotReturned /\ outcome = Pending
    /\ autoDetected.state = "feed" =>
          /\ GoodAnswer(lastAnswer)
          /\ Len(autoDetected.feed.articles) >= 1
          /\ pc = "done"
          /\ outcome.status = "ok"
    /\ (candIdx >= 1 /\ GoodAnswer(lastAnswer)) => autoDetected.state = "feed"
    /\ (candIdx >= 1 /\ lastAnswer # Undef /\ ~GoodAnswer(lastAnswer)) =>
          \/ pc = "awaitFeed" /\ Len(FeedFetches) >= 2
          \/ /\ candIdx = Len(feedLinks)
             /\ autoDetected.state = "null"
             /\ heuristicRuns = 1
             /\ outcome.error \in {"none", "NoArticlesExtracted"}

\* the second or a later candidate gave the feed and candidates remain
C10_Witness ==
    /\ autoDetected.state = "feed"
    /\ candIdx >= 2
    /\ candIdx < Len(feedLinks)

---------------------------------------------------------------------------
(* Properties of feed discovery, of the heuristic and of the synthesizer *)

\* tryAutoDetectFeeds has been entered
DiscoveryEntered == pc = "awaitFeed" \/ autoDetected.state # "pending"

\* a <link> of the page that advertises a feed at an http(s) url
AdvertisesFeed(link, resolved) ==
    /\ link.rel.t = "string"
    /\ ContainsNoCase(link.rel.v, AlternateWord)
    /\ link.type.t = "string"
    /\ \E word \in FeedTypeWords : ContainsNoCase(link.type.v, word)
    /\ resolved # Null
    /\ WellFormedHttpUrl(resolved.v)

NoAdvertisedFeed(page, base) ==
    \A k \in 1..Len(page.links) :
       ~AdvertisesFeed(page.links[k], ResolvedLinks(page, base)[k])

\* the library exports no function under any of the three names
NoFeedParser(lib) ==
    lib.extract.t # "function" /\ lib.extractFromUrl.t # "function"
    /\ lib.default.t # "function"

\* what extractFeed returns when only the heuristic decides
HeuristicDecides ==
    /\ heuristicRuns = 1
    /\ IF NoCandidates
       THEN outcome = Failed("NoArticlesExtracted")
       ELSE /\ outcome.status = "ok"
            /\ outcome.result.method = "heuristic"
            /\ outcome.result.originalArticleCount = Len(heuristicFeed.feed.articles)

\* C11: feed discovery returns none without a single feed request when the
\* page advertises no feed link or the library offers no extractor; it
\* returns none as well once every candidate has thrown, answered no object
\* or answered without a usable entry; in each case extractFeed goes on to
\* the heuristic, whose outcome depends on the page alone.
C11_DiscoveryNoneFallsBack ==
    /\ (DiscoveryEntered /\ (NoAdvertisedFeed(html, reqUrl) \/ NoFeedParser(extractorLib))) =>
          /\ autoDetected.state = "null"
          /\ FeedFetches = <<>>
          /\ candIdx = 0
    /\ (pc = "done" /\ candIdx >= 1 /\ ~GoodAnswer(lastAnswer)) =>
          /\ autoDetected.state = "null"
          /\ candIdx = Len(feedLinks)
    /\ autoDetected.state = "null" => HeuristicDecides
    /\ autoDetected.state = "null" => (candIdx = 0 \/ candIdx = Len(feedLinks))

\* the only candidate answered a feed whose entries are all unusable, and
\* the heuristic produced the result
C11_Witness ==
    /\ autoDetected.state = "null"
    /\ candIdx = 1
    /\ lastAnswer.t = "object"
    /\ Len(RawEntries(lastAnswer)) >= 1
    /\ outcome.status = "ok"
    /\ outcome.result.method = "heuristic"

\* the articles of Strategy A and of Strategy B on the fetched page
StrategyA == ExtractFromContainers(html, reqUrl)

StrategyB == ExtractFromLinksByPattern(html, reqUrl)

\* the single article of Strategy A leads; the rest is Strategy B's on other URLs
LeadsWith(articles, first, scanned) ==
    /\ Len(articles) >= 1
    /\ articles[1] = first
    /\ \A i \in 2..Len(articles) :
          /\ articles[i].url # first.url
          /\ \E j \in 1..Len(scanned) : scanned[j] = articles[i]

HeuristicPriority(articles, structured) ==
    /\ Len(structured) >= 2 => articles = structured
    /\ Len(structured) = 1 => LeadsWith(articles, structured[1], StrategyB)

\* C12: the link-pattern scan runs only when the structured containers gave
\* fewer than two articles; with two or more the heuristic returns exactly those,
\* and with exactly one that article is first and no scanned article of the
\* same URL is kept
C12_LinkScanOnlyBelowTwo ==
    /\ linkScans <= heuristicRuns
    /\ linkScans >= 1 => Len(StrategyA) < 2
    /\ heuristicFeed.state = "feed" =>
          HeuristicPriority(heuristicFeed.feed.articles, StrategyA)

\* one container article, and the scan finds the same URL under another title
C12_Witness ==
    /\ heuristicFeed.state = "feed"
    /\ linkScans = 1
    /\ Len(StrategyA) = 1
    /\ Len(heuristicFeed.feed.articles) >= 2
    /\ \E j \in 1..Len(StrategyB) :
          /\ StrategyB[j].url = StrategyA[1].url
          /\ StrategyB[j] # StrategyA[1]

\* the item of the document at a position carries the URL of the article there
ItemCarriesUrl(item, article) ==
    /\ item.id = article.url
    /\ item.link = article.url

OneItemPerArticle(items, articles) ==
    /\ Len(items) = Len(articles)
    /\ \A i \in 1..Len(articles) : ItemCarriesUrl(items[i], articles[i])

\* C13: the synthesized document has one item per article it was given, in
\* the order of the articles, and the id and the link of an item are the
\* URL of its article
C13_OneItemPerArticleInOrder ==
    outcome.status = "ok" =>
        OneItemPerArticle(outcome.result.rssXml.items, outcome.result.articles)

\* a document synthesized from several articles of different URLs
C13_Witness ==
    /\ outcome.status = "ok"
    /\ Len(outcome.result.articles) >= 3
    /\ Len(outcome.result.rssXml.items) >= 3
    /\ outcome.result.articles[1].url # outcome.result.articles[3].url
    /\ outcome.result.rssXml.items[3].link = outcome.result.articles[3].url

---------------------------------------------------------------------------
(* Properties of the batch updater and of the feed path *)

\* the feed path of each URL of the configuration files of the harness
FeedPathOfUrl == [url \in {BatchUrlA, BatchUrlB} |-> BuildFeedPath(url)]

\* a source failed: extractFeed threw, the document is empty, or the write failed
AttemptFailed(attempt) ==
    \/ attempt.settled.threw
    \/ \A i \in 1..Len(attempt.settled.rssXml) : attempt.settled.rssXml[i] = " "
    \/ ~attempt.written

FailuresUpTo(k) == Cardinality({j \in 1..k : AttemptFailed(extractLog[j])})

SuccessesUpTo(k) == k - FailuresUpTo(k)

\* the k-th attempt is recorded once, as a failure or as a success
AttemptRecorded(k) ==
    IF AttemptFailed(extractLog[k])
    THEN /\ FailuresUpTo(k) <= Len(failedSources)
         /\ failedSources[FailuresUpTo(k)].url = extractLog[k].url
         /\ failedSources[FailuresUpTo(k)].path = desiredPaths[k]
    ELSE /\ SuccessesUpTo(k) <= Len(successfulPaths)
         /\ successfulPaths[SuccessesUpTo(k)] = desiredPaths[k]

EveryEnabledSourceAttempted ==
    /\ Len(extractLog) = Len(enabledSources)
    /\ \A k \in 1..Len(enabledSources) : extractLog[k].url = enabledSources[k].url

\* C14: a source that fails (extractFeed throws, the document is empty, the
\* write fails) is recorded in failedSources and the loop goes on with every
\* remaining enabled source; the run fails only when no source succeeded and
\* succeeds when at least one did
C14_FailuresIsolatedPerSource ==
    /\ Len(desiredPaths) = Len(extractLog)
    /\ Len(failedSources) = FailuresUpTo(Len(extractLog))
    /\ Len(successfulPaths) = SuccessesUpTo(Len(extractLog))
    /\ \A k \in 1..Len(extractLog) : AttemptRecorded(k)
    /\ (batchPc = "done" /\ Len(enabledSources) > 0) => EveryEnabledSourceAttempted
    /\ batchPc = "done" =>
          (runOutcome = "ok" <=> SuccessesUpTo(Len(extractLog)) >= 1)
    /\ batchPc = "done" =>
          (runOutcome \in {"AllSourcesFailed", "NoEnabledSources"}
              <=> SuccessesUpTo(Len(extractLog)) = 0)

\* the first source throws, the second cannot be written, the third succeeds
C14_Witness ==
    /\ batchPc = "done"
    /\ runOutcome = "ok"
    /\ Len(extractLog) = MaxSources
    /\ extractLog[1].settled.threw
    /\ ReachesWrite(extractLog[2].settled) /\ ~extractLog[2].written
    /\ ~AttemptFailed(extractLog[MaxSources])
    /\ Len(failedSources) = MaxSources - 1
    /\ Len(successfulPaths) = 1

SegmentAlphabet ==
    {LowerChars[i] : i \in 1..26} \cup {DigitChars[i] : i \in 1..10} \cup {".", "-"}

HexAlphabet == {DigitChars[i] : i \in 1..10} \cup {"a","b","c","d","e","f"}

CleanSegment(segment) ==
    /\ Len(segment) >= 1
    /\ \A i \in 1..Len(segment) : segment[i] \in SegmentAlphabet
    /\ segment[1] # "-"
    /\ segment[Len(segment)] # "-"

\* the directory of a path feeds/{directory}/{16 characters}.xml
DirectoryOf(path) == SubSeq(path, 7, Len(path) - 21)

FileNameOf(path) == SubSeq(path, Len(path) - 19, Len(path) - 4)

\* feeds/{sanitized hostname}/{16 hex characters}.xml
FeedPathShape(path, hostname) ==
    /\ Len(path) >= 28
    /\ SubSeq(path, 1, 6) = <<"f","e","e","d","s","/">>
    /\ SubSeq(path, Len(path) - 3, Len(path)) = <<".","x","m","l">>
    /\ path[Len(path) - 20] = "/"
    /\ \A i \in 1..16 : FileNameOf(path)[i] \in HexAlphabet
    /\ CleanSegment(DirectoryOf(path))
    /\ CleanSegment(hostname) => DirectoryOf(path) = hostname

\* the document most recently published for the source of a publish
LatestDocument(k) ==
    publishLog[CHOOSE j \in k..Len(publishLog) :
                  /\ publishLog[j].sourceUrl = publishLog[k].sourceUrl
                  /\ \A later \in (j + 1)..Len(publishLog) :
                        publishLog[later].sourceUrl # publishLog[k].sourceUrl].rssXml

FilesAt(path) == {file \in ghPages : file.path = path}

\* C15: the path of a source's feed is feeds/{sanitized hostname}/{16 hex
\* characters}.xml and depends on the source URL only: two publishes of one
\* source URL have one path whatever their documents, their titles and the
\* publishes before them, so the later one overwrites the file of the
\* earlier one
C15_PathIsFunctionOfSourceUrl ==
    /\ \A i \in 1..Len(publishLog) :
          /\ FeedPathShape(publishLog[i].path, Hostname(publishLog[i].sourceUrl))
          /\ FilesAt(publishLog[i].path) =
                {[path |-> publishLog[i].path, text |-> LatestDocument(i)]}
    /\ \A i, j \in 1..Len(publishLog) :
          publishLog[i].sourceUrl = publishLog[j].sourceUrl =>
              publishLog[i].path = publishLog[j].path
    /\ Cardinality(ghPages) <= Cardinality({publishLog[i].sourceUrl : i \in 1..Len(publishLog)})

\* one source published twice, with another document and another title
C15_Witness ==
    /\ Len(publishLog) = 2
    /\ publishLog[1].sourceUrl = publishLog[2].sourceUrl
    /\ publishLog[1].rssXml # publishLog[2].rssXml
    /\ publishLog[1].feedTitle # publishLog[2].feedTitle
    /\ ~CleanSegment(Hostname(publishLog[1].sourceUrl))
    /\ Cardinality(ghPages) = 1
    /\ \E file \in ghPages : file.text = publishLog[2].rssXml

---------------------------------------------------------------------------
(* Properties of the rule storage *)

\* the canonical text of a URL new URL accepts
CanonicalUrl(url) == Href(ParseUrl(url))

SavesOfKey(key) == {k \in 1..Len(saveLog) : CanonicalUrl(saveLog[k].url) = key}

LatestSaveOfKey(key) ==
    saveLog[CHOOSE k \in SavesOfKey(key) : \A other \in SavesOfKey(key) : other <= k]

\* C16: once saveRulesForSourceUrl(u, r) has completed, getRulesBySourceUrl
\* answers, for every URL with the canonical form of u, the compact form of
\* the normalized r (null when nothing is left of it), until rules are saved
\* again for that canonical URL
C16_GetReturnsLatestSaveOfKey ==
    (lastGet # NoGet /\ SavesOfKey(CanonicalUrl(lastGet.url)) # {}) =>
        lastGet.rules =
            CompactSourceRules(NormalizeSourceRules(
                LatestSaveOfKey(CanonicalUrl(lastGet.url)).rules))

\* rules saved under one spelling of a URL, then rules for another source,
\* then read under another spelling of the first
C16_Witness ==
    /\ Len(saveLog) = 2
    /\ lastGet # NoGet
    /\ lastGet.rules # Null
    /\ lastGet.url # saveLog[1].url
    /\ CanonicalUrl(lastGet.url) = CanonicalUrl(saveLog[1].url)
    /\ CanonicalUrl(lastGet.url) # CanonicalUrl(saveLog[2].url)
    /\ \E i \in 1..Len(configFile) : configFile[i].url = CanonicalUrl(lastGet.url)
    /\ lastGet.rules = CompactSourceRules(NormalizeSourceRules(saveLog[1].rules))

---------------------------------------------------------------------------
(* Properties of concurrent calls *)

\* one call fed, alone, what a call of the pair heard
RECURSIVE AloneFrom(_, _, _)
AloneFrom(task, heard, i) ==
    IF i > Len(heard) THEN task
    ELSE IF heard[i].kind = "html"
    THEN AloneFrom(TaskAfterHtml(task, heard[i].value), heard, i + 1)
    ELSE AloneFrom(TaskAfterFeed(task, task.page, heard[i].value), heard, i + 1)

RunAlone(url, heard) == AloneFrom(TaskStart(url), heard, 1)

StepsOf(id) == SelectSeq(pairSteps, LAMBDA step : step.id = id)

\* C17: two calls of extractFeed in flight together share nothing they
\* write: however their awaits interleave, each call ends with the result it
\* has when it runs alone on the same answers, whether the other call fails
\* or not
C17_ConcurrentCallsIndependent ==
    \A id \in TaskIds :
        tasks[id].pc # "idle" =>
            /\ tasks[id] = RunAlone(tasks[id].url, tasks[id].heard)
            /\ tasks[id].pc = "done" =>
                  tasks[id].outcome = RunAlone(tasks[id].url, tasks[id].heard).outcome

\* the second call fetched another page between the page and the feed of
\* the first, and failed; the first returned a feed
C17_Witness ==
    /\ tasks[1].pc = "done" /\ tasks[2].pc = "done"
    /\ tasks[1].outcome.status = "ok"
    /\ tasks[1].outcome.result.method = "heuristic"
    /\ tasks[2].outcome.status = "error"
    /\ tasks[1].page # tasks[2].page
    /\ tasks[2].page # NoPage
    /\ \E k \in 1..(Len(pairSteps) - 2) :
          /\ pairSteps[k] = PairStep(1, "html")
          /\ pairSteps[k + 1] = PairStep(2, "html")
          /\ pairSteps[k + 2] = PairStep(1, "feed")

---------------------------------------------------------------------------
(* Properties of the enabled flag *)

\* the rows of the configuration that are not switched off
ActiveRows == {i \in 1..Len(sources) : sources[i].enabled # Bool(FALSE)}

\* the position in the configuration of the k-th row that is not switched off
ActiveRow(k) ==
    CHOOSE i \in ActiveRows : Cardinality({j \in ActiveRows : j <= i}) = k

\* the k-th attempt of the run is for the k-th row that is not switched off
AttemptIsForActiveRow(k) ==
    /\ k <= Cardinality(ActiveRows)
    /\ extractLog[k].url = sources[ActiveRow(k)].url
    /\ desiredPaths[k] = FeedPathOfUrl[sources[ActiveRow(k)].url]

\* C18: a source with enabled false is never extracted and adds no entry to
\* desiredPaths, successfulPaths or failedSources; a source with enabled true
\* or without the flag is always processed
C18_DisabledSourcesSkipped ==
    /\ \A k \in 1..Len(extractLog) : AttemptIsForActiveRow(k)
    /\ Len(desiredPaths) <= Cardinality(ActiveRows)
    /\ Len(successfulPaths) + Len(failedSources) <= Cardinality(ActiveRows)
    /\ \A k \in 1..Len(failedSources) :
          \E i \in ActiveRows : /\ sources[i].url = failedSources[k].url
                                /\ sources[i].name = failedSources[k].name
    /\ (batchPc = "done" /\ Cardinality(ActiveRows) > 0) =>
          /\ Len(extractLog) = Cardinality(ActiveRows)
          /\ Len(successfulPaths) + Len(failedSources) = Cardinality(ActiveRows)
    /\ (batchPc = "done" /\ Cardinality(ActiveRows) = 0) =>
          /\ runOutcome = "NoEnabledSources"
          /\ extractLog = <<>> /\ desiredPaths = <<>>

\* a switched-off source between a source without the flag and one with
\* enabled true: two attempts, none for the source of the middle row
C18_Witness ==
    /\ batchPc = "done"
    /\ Len(sources) = 3
    /\ sources[1].enabled = Undef
    /\ sources[2].enabled = Bool(FALSE)
    /\ sources[3].enabled = Bool(TRUE)
    /\ sources[2].url # sources[1].url /\ sources[2].url # sources[3].url
    /\ Len(extractLog) = 2
    /\ Len(desiredPaths) = 2
    /\ \A k \in 1..2 : extractLog[k].url # sources[2].url
    /\ \A k \in 1..2 : desiredPaths[k] # FeedPathOfUrl[sources[2].url]

---------------------------------------------------------------------------
(* Properties of the entry mapping *)

NonEmptyString(value) == value.t = "string" /\ Len(value.v) > 0

Present(value) == value.t \notin {"undefined", "null"}

\* the first of three values that satisfies a test, undefined without one
FirstThat(Test(_), a, b, c) ==
    IF Test(a) THEN a ELSE IF Test(b) THEN b ELSE IF Test(c) THEN c ELSE Undef

\* the title as stated: the first non-empty of title, summary and snippet,
\* with its whitespace collapsed
StatedTitle(e) == CleanText(FirstThat(NonEmptyString, e.title, e.summary, e.contentSnippet))

\* the title as computed: the first of the three that is neither undefined
\* nor null, with its whitespace collapsed
ComputedTitle(e) == CleanText(FirstThat(Present, e.title, e.summary, e.contentSnippet))

\* link, then url, then id
EntryLink(e) == FirstThat(Present, e.link, e.url, e.id)

AbsoluteHttp(link) == link.t = "string" /\ link.v # <<>> /\ WellFormedHttpUrl(link.v)

\* dropped without a title or without an absolute http(s) URL, else kept
\* under that title and that URL
MappedAs(title, link) ==
    IF title = <<>> \/ ~AbsoluteHttp(link) THEN parsedEntry = Null
    ELSE /\ parsedEntry # Null
         /\ parsedEntry.title = title
         /\ parsedEntry.url = link.v

\* C19 as stated: the title of the article is the first non-empty value among
\* title, summary and snippet of the entry, the URL is link, then url, then
\* id; the entry is dropped when that title is empty or that URL is not an
\* absolute http(s) URL, and kept otherwise
C19_TitleIsFirstNonEmpty ==
    (parsedEntry # NotParsed /\ feedEntry.t = "object") =>
        MappedAs(StatedTitle(feedEntry), EntryLink(feedEntry))

\* C19 as computed: the title is the first of title, summary and snippet
\* that is neither undefined nor null, so an empty title hides a summary;
\* the rest is as stated
C19_TitleIsFirstPresent ==
    /\ (parsedEntry # NotParsed /\ feedEntry.t = "object") =>
          MappedAs(ComputedTitle(feedEntry), EntryLink(feedEntry))
    /\ (parsedEntry # NotParsed /\ feedEntry.t # "object") => parsedEntry = Null

\* an entry with an empty title, a summary and an absolute link is dropped
C19_Witness ==
    /\ parsedEntry = Null
    /\ feedEntry.t = "object"
    /\ feedEntry.title = Str(<<>>)
    /\ NonEmptyString(feedEntry.summary)
    /\ AbsoluteHttp(feedEntry.link)


---------------------------------------------------------------------------
(* C20: the shape of a normalized rule set and of its compact form         *)

ListFields == {"titleIncludes", "titleExcludes", "urlIncludes", "urlExcludes"}
FlagFields == {"descriptionRequired", "publishedAtRequired"}

\* a string with at least one character and no space at either end
TrimmedNonEmpty(term) ==
    Len(term) > 0 /\ term[1] # " " /\ term[Len(term)] # " "

\* a list of trimmed non-empty strings, none twice: the terms of the raw field
CleanTermList(list, rawValue) ==
    /\ \A i \in 1..Len(list) : TrimmedNonEmpty(list[i])
    /\ \A i, j \in 1..Len(list) : i # j => list[i] # list[j]
    /\ { list[i] : i \in 1..Len(list) } = TermsOf(rawValue)
    /\ rawValue.t # "array" => list = <<>>

\* the default of a field of a normalized rule set
DefaultOf(field) ==
    IF field \in ListFields THEN <<>>
    ELSE IF field \in FlagFields THEN FALSE
    ELSE 0

\* a normalized value as the compact object holds it
KeptValue(field, value) ==
    IF field \in ListFields THEN TermArray(value)
    ELSE IF field \in FlagFields THEN Bool(value)
    ELSE Num(value)

CompactKeeps(compact, field) == compact.t = "object" /\ compact[field] # Undef

NormalizedShape(normalized, raw) ==
    /\ \A field \in ListFields : CleanTermList(normalized[field], RawField(raw, field))
    /\ \A field \in FlagFields :
          /\ normalized[field] \in BOOLEAN
          /\ normalized[field] <=> RawField(raw, field) = Bool(TRUE)
    /\ normalized.skipTopCount \in Nat
    /\ normalized.skipTopCount = SkipOf(RawField(raw, "skipTopCount"))

CompactShape(compact, normalized) ==
    /\ \A field \in RuleFields :
          /\ CompactKeeps(compact, field) <=> normalized[field] # DefaultOf(field)
          /\ CompactKeeps(compact, field) =>
                compact[field] = KeptValue(field, normalized[field])
    /\ compact = Null <=> \A field \in RuleFields : normalized[field] = DefaultOf(field)

\* C20: for every raw rule set, null, undefined and mistyped fields included,
\* normalizeSourceRules returns four lists of trimmed non-empty strings
\* without repeats (empty when the field is no list), two flags that are true
\* exactly when the raw value is true, and a skipTopCount that is a natural
\* number, 0 unless the raw value is a finite number of at least 1 and its
\* floor then; compactSourceRules keeps a field exactly when its normalized
\* value is not the default, and returns null when none is kept.
C20_NormalizedShapeAndCompactForm ==
    rulesCompact # NotNormalized =>
       /\ NormalizedShape(rulesNormalized, rawRules)
       /\ CompactShape(rulesCompact, rulesNormalized)

\* a rule set with a repeated term, a list and a flag of the wrong type and a
\* fractional skipTopCount was normalized and compacted
C20_Witness ==
    /\ rulesCompact # NotNormalized
    /\ rawRules.t = "object"
    /\ rawRules.titleIncludes = Arr(<<Str(<<" ","B">>), Str(<<"B">>)>>)
    /\ rawRules.titleExcludes = Str(<<"C">>)
    /\ rawRules.descriptionRequired = Str(<<"t","r","u","e">>)
    /\ rawRules.skipTopCount = Half(3)
    /\ rulesNormalized.titleIncludes = <<<<"B">>>>
    /\ rulesNormalized.skipTopCount = 1
    /\ CompactKeeps(rulesCompact, "skipTopCount")
    /\ ~CompactKeeps(rulesCompact, "descriptionRequired")
    /\ ~CompactKeeps(rulesCompact, "titleExcludes")


---------------------------------------------------------------------------
(* C21: the requests of one call *)

HtmlFetchCount == Cardinality({ i \in 1..Len(fetchLog) : fetchLog[i].kind = "html" })

\* the log of a call: the page first and once, then candidates, none twice
NothingRetried ==
    /\ HtmlFetchCount <= 1
    /\ pc \in {"awaitHtml", "awaitFeed"} => HtmlFetchCount = 1
    /\ outcome.status = "ok" => HtmlFetchCount = 1
    /\ fetchLog # <<>> => fetchLog[1] = [kind |-> "html", url |-> reqUrl]
    /\ \A i, j \in 1..Len(fetchLog) : i # j => fetchLog[i] # fetchLog[j]
    /\ Len(FeedFetches) <= MAX_FEED_LINKS
    /\ Len(fetchLog) <= MAX_FEED_LINKS + 1

\* the number of requests that can still settle before the call has ended
RequestsAhead ==
    IF pc = "done" THEN 0
    ELSE IF pc = "awaitFeed" THEN Len(feedLinks) - candIdx + 1
    ELSE IF pc = "awaitHtml" THEN MAX_FEED_LINKS + 1
    ELSE IF pc = "awaitRules" THEN MAX_FEED_LINKS + 2
    ELSE MAX_FEED_LINKS + 3

\* while the call waits, the request it waits for is the latest of the log
WaitsForLatestRequest ==
    /\ pc = "awaitHtml" => Len(fetchLog) = 1
    /\ pc = "awaitFeed" =>
          /\ candIdx \in 1..Len(feedLinks)
          /\ fetchLog[Len(fetchLog)] = [kind |-> "feed", url |-> feedLinks[candIdx]]
    /\ pc = "done" => outcome # Pending \/ ipcResponse # NoResponse

\* C21: within one extractFeed call the page is requested exactly once, at
\* most MAX_FEED_LINKS candidates are requested and none of them twice, so
\* the call issues at most MAX_FEED_LINKS + 1 requests; every step of the
\* call is the settling of the request it waits for and leaves strictly
\* fewer requests ahead, so the call has ended, with a result or an error,
\* after at most MAX_FEED_LINKS + 1 requests have settled.
C21_BoundedRequestsAndTermination ==
    /\ [](NothingRetried /\ WaitsForLatestRequest)
    /\ [][RequestsAhead' < RequestsAhead /\ RequestsAhead' >= 0]_vars

\* a call that requested the page and MAX_FEED_LINKS candidates has ended
C21_Witness ==
    /\ pc = "done"
    /\ Len(fetchLog) = MAX_FEED_LINKS + 1
    /\ Len(FeedFetches) = MAX_FEED_LINKS
    /\ Len(html.links) > MAX_FEED_LINKS


---------------------------------------------------------------------------
(* C22: title and description of an extracted feed *)

RECURSIVE FirstNonEmptyText(_)
\* the first text of the list that has a character; the last one otherwise
FirstNonEmptyText(texts) ==
    IF Len(texts) = 1 \/ Head(texts) # <<>> THEN Head(texts)
    ELSE FirstNonEmptyText(Tail(texts))

\* title and description of a feed follow the two fallback chains
FallsBackThrough(feed, titles, descriptions) ==
    /\ feed.title # <<>>
    /\ feed.description # <<>>
    /\ feed.title = FirstNonEmptyText(titles)
    /\ feed.description =
          FirstNonEmptyText(descriptions \o <<feed.title \o AutoFeedSuffix>>)

\* C22: every feed either extraction path produces has a title and a
\* description with at least one character.  Feed discovery takes the title
\* of the parsed feed, else the site name of the page, else the host name of
\* the source; the heuristic takes the site name, else the title tag, else
\* the host name.  The description is the parsed one (discovery only), else
\* the description of the page, else the default built from the title.  The
\* result of extractFeed carries the same title and description.
C22_TitleAndDescriptionNonEmpty ==
    /\ autoDetected.state = "feed" =>
          FallsBackThrough(autoDetected.feed,
                           <<CleanText(lastAnswer.title), CleanText(html.ogSiteName),
                             Hostname(reqUrl)>>,
                           <<CleanText(lastAnswer.description),
                             CleanText(html.metaDescription)>>)
    /\ heuristicFeed.state = "feed" =>
          FallsBackThrough(heuristicFeed.feed,
                           <<CleanText(html.ogSiteName), CleanText(Str(html.titleTag)),
                             Hostname(reqUrl)>>,
                           <<CleanText(html.metaDescription)>>)
    /\ outcome.status = "ok" =>
          /\ outcome.result.feedTitle # <<>>
          /\ outcome.result.feedDescription # <<>>
          /\ \/ /\ autoDetected.state = "feed"
                /\ outcome.result.feedTitle = autoDetected.feed.title
                /\ outcome.result.feedDescription = autoDetected.feed.description
             \/ /\ heuristicFeed.state = "feed"
                /\ outcome.result.feedTitle = heuristicFeed.feed.title
                /\ outcome.result.feedDescription = heuristicFeed.feed.description

\* a parsed feed with a blank title and no description, on a page with a
\* blank site name and no description: host name and default description
C22_Witness ==
    /\ autoDetected.state = "feed"
    /\ lastAnswer.title = Str(<<" ">>)
    /\ lastAnswer.description = Undef
    /\ html.ogSiteName = Str(<<" ">>)
    /\ html.metaDescription = Undef
    /\ autoDetected.feed.title = Hostname(reqUrl)
    /\ autoDetected.feed.description = Hostname(reqUrl) \o AutoFeedSuffix
    /\ outcome.status = "ok"


---------------------------------------------------------------------------
(* C23: what applySourceRules returns is part of what it was given *)

\* the ways of choosing Len(part) positions of whole, in increasing order
IncreasingPositions(part, whole) ==
    { f \in [1..Len(part) -> 1..Len(whole)] :
         \A i, j \in 1..Len(part) : i < j => f[i] < f[j] }

\* part is whole with some positions left out
IsSubsequence(part, whole) ==
    \E f \in IncreasingPositions(part, whole) : \A i \in 1..Len(part) : part[i] = whole[f[i]]

\* C23: for every input list and rule set, the articles applySourceRules
\* returns are articles of the input at increasing positions, each as it was
\* given (none added, altered, repeated or moved), and the length of the
\* output plus filteredOutCount is the length of the input.
C23_OutputIsSubsequence ==
    ruleResult # NoResult =>
       /\ IsSubsequence(ruleResult.articles, ruleArticles)
       /\ Len(ruleResult.articles) + ruleResult.filteredOutCount = Len(ruleArticles)

\* of a list of MaxRuleList articles some were filtered out and two
\* different articles were kept
C23_Witness ==
    /\ ruleResult # NoResult
    /\ Len(ruleArticles) = MaxRuleList
    /\ ruleResult.filteredOutCount >= 1
    /\ Len(ruleResult.articles) = 2
    /\ ruleResult.articles[1] # ruleResult.articles[2]


---------------------------------------------------------------------------
(* C24: the outcome of every enabled source, and the summary *)

\* the run went through the loop and ended
LoopFinished == batchPc = "done" /\ runOutcome # "NoEnabledSources"

PathOfSource(k) == FeedPathOfUrl[enabledSources[k].url]

ItemsOf(list) == { list[i] : i \in 1..Len(list) }

\* the path of every enabled source is desired, in the loop and in the summary
EveryPathDesired ==
    /\ Len(desiredPaths) = Len(enabledSources)
    /\ \A k \in 1..Len(enabledSources) :
          /\ desiredPaths[k] = PathOfSource(k)
          /\ PathOfSource(k) \in ItemsOf(meta.desiredPaths)

\* managed-feeds.json holds the three lists of the loop
SummaryOfLoop ==
    /\ meta.written
    /\ ItemsOf(meta.desiredPaths) = ItemsOf(desiredPaths)
    /\ ItemsOf(meta.successfulPaths) = ItemsOf(successfulPaths)
    /\ meta.failedSources = failedSources

SummaryOnlyAfterLoop ==
    /\ batchPc # "done" => ~meta.written
    /\ LoopFinished => SummaryOfLoop
    /\ runOutcome = "AllSourcesFailed" =>
          /\ SummaryOfLoop
          /\ meta.successfulPaths = <<>>
          /\ Len(meta.failedSources) = Len(enabledSources)
    /\ runOutcome = "NoEnabledSources" => ~meta.written

HasSuccessfulPath(k) == PathOfSource(k) \in ItemsOf(successfulPaths)

HasFailureRecord(k) ==
    \E i \in 1..Len(failedSources) :
       /\ failedSources[i].url = enabledSources[k].url
       /\ failedSources[i].name = enabledSources[k].name
       /\ failedSources[i].path = PathOfSource(k)

\* C24 as stated: after the loop every enabled source is in exactly one of
\* the two outcomes, its path in successfulPaths or a record of it in
\* failedSources; its path is in desiredPaths; the summary is written on
\* every run that reaches the loop, the run in which all sources fail included.
C24_EachSourceInExactlyOneOutcome ==
    /\ LoopFinished =>
          /\ \A k \in 1..Len(enabledSources) : HasSuccessfulPath(k) # HasFailureRecord(k)
          /\ EveryPathDesired
    /\ SummaryOnlyAfterLoop

\* C24, per iteration: after the loop every enabled source has added exactly
\* one entry, its path to successfulPaths or a record of it to failedSources,
\* so that the two lists together have one entry per enabled source; its path
\* is in desiredPaths; the summary is written on every run that reaches the
\* loop, before the all-failed error is raised, and on no other run.
C24_EachSourceRecordedOnce ==
    /\ LoopFinished =>
          /\ EveryEnabledSourceAttempted
          /\ Len(successfulPaths) + Len(failedSources) = Len(enabledSources)
          /\ \A k \in 1..Len(enabledSources) :
                /\ AttemptRecorded(k)
                /\ HasSuccessfulPath(k) \/ HasFailureRecord(k)
                /\ AttemptFailed(extractLog[k]) => HasFailureRecord(k)
                /\ ~AttemptFailed(extractLog[k]) => HasSuccessfulPath(k)
          /\ EveryPathDesired
    /\ SummaryOnlyAfterLoop

\* two enabled sources with one URL, the first written and the second not:
\* their path is successful and the second has a failure record
C24_Witness ==
    /\ LoopFinished
    /\ meta.written
    /\ Len(enabledSources) >= 2
    /\ enabledSources[1].url = enabledSources[2].url
    /\ ~AttemptFailed(extractLog[1])
    /\ AttemptFailed(extractLog[2])
    /\ HasSuccessfulPath(2) /\ HasFailureRecord(2)


---------------------------------------------------------------------------
(* C25: the output directory and the configuration file *)

\* a row the reader keeps: a name and an http(s) URL, blanks around them aside
WellFormedRow(item) ==
    /\ item.t = "object"
    /\ NonBlankString(item.name)
    /\ item.url.t = "string"
    /\ WellFormedHttpUrl(Trim(item.url.v))

\* a configuration file the reader accepts
ValidConfigFile(parsed) ==
    /\ parsed.t = "object"
    /\ parsed.version = Num(1)
    /\ parsed.sources.t = "array"
    /\ \A i \in 1..Len(parsed.sources.v) : WellFormedRow(parsed.sources.v[i])

\* a valid file with a row that is not switched off
HasEnabledRow(parsed) ==
    /\ ValidConfigFile(parsed)
    /\ \E i \in 1..Len(parsed.sources.v) : parsed.sources.v[i].enabled # Bool(FALSE)

RunFailed == runOutcome \notin {"pending", "running", "ok"}

\* the files of the previous run are all there
OutputUntouched == outputFiles = {StaleFile}

\* C25: the output directory is deleted and recreated only once the
\* configuration file has been read and found valid with at least one
\* enabled source; on an invalid file or a file without enabled source the
\* run fails, no extraction is attempted and the directory keeps the files
\* it had.
C25_OutputClearedOnlyForValidConfig ==
    /\ batchPc \in {"read", "start"} => OutputUntouched
    /\ ~OutputUntouched => HasEnabledRow(rawConfig)
    /\ (batchPc \in {"loop", "done"} /\ HasEnabledRow(rawConfig)) =>
          StaleFile \notin outputFiles
    /\ (batchPc = "done" /\ ~HasEnabledRow(rawConfig)) =>
          /\ RunFailed
          /\ OutputUntouched
          /\ extractLog = <<>>
          /\ ~meta.written
    /\ (batchPc = "done" /\ ~ValidConfigFile(rawConfig)) => sources = <<>>
    /\ (batchPc = "done" /\ ValidConfigFile(rawConfig) /\ ~HasEnabledRow(rawConfig)) =>
          runOutcome = "NoEnabledSources"

\* a valid file whose rows are all switched off: the run failed and the
\* files of the previous run are still there
C25_Witness ==
    /\ batchPc = "done"
    /\ ValidConfigFile(rawConfig)
    /\ Len(sources) >= 1
    /\ runOutcome = "NoEnabledSources"
    /\ OutputUntouched

---------------------------------------------------------------------------
(* C26: what one save changes in the configuration *)

\* the positions of the records of one canonical URL, in a configuration
\* as readConfig returns it: every record holds its URL in canonical form
RecordsOfUrl(records, key) == {i \in 1..Len(records) : records[i].url = key}

OneRecordPerUrl(records) ==
    \A i, j \in 1..Len(records) : records[i].url = records[j].url => i = j

FirstRecordOfUrl(records, key) ==
    CHOOSE i \in RecordsOfUrl(records, key) : \A j \in RecordsOfUrl(records, key) : i <= j

\* a save completed in this step
SaveCompleted == Len(saveLog') = Len(saveLog) + 1

\* the record of the URL is rewritten in place: name and enabled flag
\* stay, every other record stays where and what it was
RecordReplaced(before, after, key, at) ==
    /\ Len(after) = Len(before)
    /\ \A i \in 1..Len(before) : i # at => after[i] = before[i]
    /\ after[at].name = before[at].name
    /\ after[at].enabled = before[at].enabled
    /\ after[at].url = key
    /\ RecordsOfUrl(after, key) = RecordsOfUrl(before, key)

\* one record is put behind the others, which stay where and what they were
RecordAppended(before, after, key) ==
    /\ Len(after) = Len(before) + 1
    /\ \A i \in 1..Len(before) : after[i] = before[i]
    /\ after[Len(after)].name = ParseUrl(key).hostname
    /\ after[Len(after)].enabled = Bool(TRUE)
    /\ after[Len(after)].url = key
    /\ RecordsOfUrl(after, key) = {Len(after)}

SaveFrame(before, after, key) ==
    /\ IF RecordsOfUrl(before, key) # {}
       THEN RecordReplaced(before, after, key, FirstRecordOfUrl(before, key))
       ELSE RecordAppended(before, after, key)
    /\ OneRecordPerUrl(before) => OneRecordPerUrl(after)

---------------------------------------------------------------------------
(* C27: two saves for two sources at once *)

BothSavesCompleted == \A id \in SaveCallIds : saveCalls[id].response = "ok"

SavesForDifferentSources == saveCalls[1].target # saveCalls[2].target

\* the stored configuration answers the URL of the call with its rules
SaveIsStored(call) ==
    RulesBySourceUrl(ReadConfig(sharedConfig), call.target) =
        CompactSourceRules(NormalizeSourceRules(Coalesce(call.rules, Undef)))

\* C27: once two concurrent saveRulesForSourceUrl calls for two different
\* source URLs have both completed, the stored configuration holds the rules
\* of both; no save is lost
C27_NoSaveLost ==
    (BothSavesCompleted /\ SavesForDifferentSources) =>
        \A id \in SaveCallIds : SaveIsStored(saveCalls[id])

\* both calls read the file before either wrote it, and both completed with
\* rules for two different sources
C27_Witness ==
    /\ BothSavesCompleted
    /\ SavesForDifferentSources
    /\ \A id \in SaveCallIds : saveCalls[id].rules # Null
    /\ \E id \in SaveCallIds :
          RecordsOfUrl(saveCalls[id].config, saveCalls[3 - id].target) = {}

---------------------------------------------------------------------------
(* C28: the answers of the generate-feed handler *)

\* the handler has not called extractFeed while it waits for the rules
RulesBeforeExtraction ==
    /\ pc = "awaitRules" => extractCalls = 0 /\ fetchLog = <<>>
    /\ (caller = "ipc" /\ extractCalls > 0) => storageReads = 1

\* a success response carries what extractFeed returned, with an article
SuccessHasArticles ==
    ipcResponse.state = "success" =>
        /\ outcome.status = "ok"
        /\ ipcResponse.data = outcome.result
        /\ Len(ipcResponse.data.articles) >= 1

HandlerReturned == caller = "ipc" /\ pc = "done"

\* getRulesBySourceUrl threw: extractFeed was never called
RuleLoadingThrew == HandlerReturned /\ storageReads = 1 /\ extractCalls = 0

ExtractionThrew == HandlerReturned /\ outcome.status = "error"

NothingLeftByRules ==
    /\ HandlerReturned
    /\ outcome.status = "ok"
    /\ Len(outcome.result.articles) = 0

AnsweredFailure == ipcResponse.state = "failure" /\ ipcResponse.error # "none"

---------------------------------------------------------------------------
(* C29: one publish at a time *)

PublishesOutstanding == WaitingAt("publish")

\* a publish is under way for one source while the latest result is that of
\* another: a generation completed, and recomputed the button, meanwhile
GeneratedDuringPublish ==
    /\ \E waiting \in PublishesOutstanding : waiting.url # renderer.latestResult.sourceUrl
    /\ WaitingAt("feed") = {}
    /\ WaitingAt("rules") = {}

\* C29: at most one publishFeed request is outstanding; publishInProgress
\* is true exactly while one is, whatever its outcome was; and while it is
\* true the publish button is disabled, whichever handler has recomputed
\* the button since
C29_OnePublishInFlight ==
    /\ Cardinality(PublishesOutstanding) <= 1
    /\ renderer.publishInProgress <=> PublishesOutstanding # {}
    /\ renderer.publishInProgress => "publish" \in renderer.disabled

\* a publish is under way, the button is disabled, and meanwhile a
\* generation for another source has completed and recomputed the button
C29_Witness ==
    /\ renderer.publishInProgress
    /\ GeneratedDuringPublish
    /\ "publish" \in renderer.disabled
    /\ CanPublish(FALSE, renderer.githubState, renderer.latestResult)

---------------------------------------------------------------------------
(* C30: one feed generation at a time *)

GenerationsOutstanding == WaitingAt("feed")

SucceededRequests ==
    {k \in 1..Len(renderer.generateLog) : renderer.generateLog[k].answer = "success"}

\* the URL of the latest request, in the order of the requests, that was
\* answered with a result
LatestSucceededUrl ==
    renderer.generateLog[CHOOSE k \in SucceededRequests :
                            \A other \in SucceededRequests : other <= k].url

\* nothing is awaited any more
AllSettled == renderer.inFlight = {}

\* C30: no generateFeed request is made while another one is outstanding,
\* whether through the generate button, the Enter key or regenerate with
\* rules; so once everything has settled latestResult and the articles
\* shown are those of the most recently requested URL that gave a result;
\* and the generate and regenerate buttons are enabled only while no
\* generateFeed request is outstanding
C30_OneGenerationAtATime ==
    /\ Cardinality(GenerationsOutstanding) <= 1
    /\ (AllSettled /\ SucceededRequests # {}) =>
          /\ renderer.latestResult.sourceUrl = LatestSucceededUrl
          /\ renderer.shown = renderer.latestResult
    /\ GenerationsOutstanding # {} =>
          {"generate", "regenerate"} \subseteq renderer.disabled

\* two requests were made for two URLs and both gave a result; everything
\* has settled and the result kept and shown is that of the first request
C30_Witness ==
    /\ AllSettled
    /\ Len(renderer.generateLog) = 2
    /\ SucceededRequests = {1, 2}
    /\ renderer.generateLog[1].url # renderer.generateLog[2].url
    /\ renderer.latestResult.sourceUrl = renderer.generateLog[1].url
    /\ renderer.shown.sourceUrl = renderer.generateLog[1].url

===========================================================================
